---- MODULE Spec2Model ----
(***************************************************************************)
(* State-machine model of src/shell/notifications/claude-notifier.py:      *)
(* the hook notifier that records tasks in an SQLite store and requests    *)
(* desktop notifications.                                                  *)
(*                                                                         *)
(* Every hook invocation is a short-lived operating-system process.  The   *)
(* processes share nothing but the SQLite file, so the model interleaves   *)
(* them at the granularity of one SQL statement (or one COMMIT).           *)
(***************************************************************************)
EXTENDS Integers, Sequences, FiniteSets, TLC

(***************************************************************************)
(* Bounds of the model.                                                    *)
(***************************************************************************)
NumProcs == 3

Procs == 1..NumProcs

(***************************************************************************)
(* Inputs of the model.  The wall clock counts whole seconds from an       *)
(* instant whose Julian second count is a multiple of 675 (see julianday). *)
(***************************************************************************)
Instants == {5, 70, 71}
Sessions == {"A", "B"}
CwdInputs == { <<"/", "p", "1">> }
Prompts == {"x"}

(***************************************************************************)
(* Python None and SQL NULL.                                               *)
(***************************************************************************)
None == "<None>"
NULL == -1

(***************************************************************************)
(* Environment configuration (defaults of the two environment variables).  *)
(***************************************************************************)
NOTIFICATION_SOUND == "Glass"
EDITOR_COMMAND == "zed"

VARIABLES
    now,      \* the wall clock, in whole seconds
    schema,   \* sqlite_master: which of the table and the trigger exist
    tasks,    \* the committed rows of table tasks, in rowid order
    lock,     \* the process holding SQLite's write lock, 0 when it is free
    wtable,   \* the lock holder's uncommitted image of table tasks
    proc,     \* the hook invocations
    settings, \* the file ~/.claude/settings.json
    cli       \* the last command of tools/notifications.py and its outcome

vars == <<now, schema, tasks, lock, wtable, proc, settings, cli>>

----------------------------------------------------------------------------
(***************************************************************************)
(* Strings.  A path is drawn as a sequence of characters so that           *)
(* os.path.basename can be computed; everywhere else it is a string.       *)
(***************************************************************************)
RECURSIVE Join(_)
Join(cs) == IF cs = <<>> THEN "" ELSE Head(cs) \o Join(Tail(cs))

Cwds == { Join(cs) : cs \in CwdInputs \cup { <<>> } }

\* every path a payload's cwd takes in some specification
PathInputs == CwdInputs \cup { <<"/", "p", "1", "/">>, <<"/">> }

Chars(s) == CHOOSE cs \in PathInputs \cup { <<>> } : Join(cs) = s

\* os.path.basename: what follows the last "/"
RECURSIVE LastSlash(_, _)
LastSlash(cs, i) ==
    IF i = 0 THEN 0
    ELSE IF cs[i] = "/" THEN i
    ELSE LastSlash(cs, i - 1)

basename(s) ==
    LET cs == Chars(s)
        k == LastSlash(cs, Len(cs))
    IN  Join(SubSeq(cs, k + 1, Len(cs)))

\* dict.get(key, default)
Get(data, key, default) == IF key \in DOMAIN data THEN data[key] ELSE default

\* Python truthiness of an optional string
Truthy(s) == s # None /\ s # ""

----------------------------------------------------------------------------
(***************************************************************************)
(* The store: table tasks and trigger auto_seq.                            *)
(***************************************************************************)
Max(S) == CHOOSE x \in S : \A y \in S : y <= x
Min(S) == CHOOSE x \in S : \A y \in S : x <= y

Rows(t) == { t[i] : i \in 1..Len(t) }

\* INTEGER PRIMARY KEY AUTOINCREMENT: one more than the largest rowid
NextId(t) == IF t = <<>> THEN 1 ELSE Max({ r.id : r \in Rows(t) }) + 1

\* mutant of TriggerSeq: the subquery without WHERE session_id = NEW.session_id
TriggerSeq_AllSessions(t, session_id) ==
    LET seqs == { r.seq : r \in { x \in Rows(t) : x.seq # NULL } }
    IN  (IF seqs = {} THEN 0 ELSE Max(seqs)) + 1

\* SELECT COALESCE(MAX(seq), 0) + 1 FROM tasks WHERE session_id = NEW.session_id
\* (MAX skips the NULL seq of the row just inserted)
TriggerSeq(t, session_id) ==
    LET seqs == { r.seq : r \in { x \in Rows(t) : x.session_id = session_id /\ x.seq # NULL } }
    IN  (IF seqs = {} THEN 0 ELSE Max(seqs)) + 1

\* mutant of auto_seq: the trigger's UPDATE without WHERE id = NEW.id
auto_seq_NoWhere(t, new) ==
    [ i \in 1..Len(t) |-> [ t[i] EXCEPT !.seq = TriggerSeq(t, new.session_id) ] ]

\* trigger auto_seq: UPDATE tasks SET seq = ... WHERE id = NEW.id
auto_seq(t, new) ==
    [ i \in 1..Len(t) |->
        IF t[i].id = new.id
        THEN [ t[i] EXCEPT !.seq = TriggerSeq(t, new.session_id) ]
        ELSE t[i] ]

\* INSERT INTO tasks (session_id, prompt, cwd) VALUES (?, ?, ?)
InsertTask(t, session_id, prompt, cwd, clock, trigger) ==
    LET new == [ id               |-> NextId(t),
                 session_id       |-> session_id,
                 created_at       |-> clock,
                 prompt           |-> prompt,
                 cwd              |-> cwd,
                 seq              |-> NULL,
                 completed_at     |-> NULL,
                 duration_seconds |-> NULL ]
        inserted == Append(t, new)
    IN  IF trigger THEN auto_seq(inserted, new) ELSE inserted

(***************************************************************************)
(* julianday(ts) is the double iJD / 86400000.0, iJD the Julian day in     *)
(* milliseconds.  For today's dates the quotient lies in [2^21, 2^22), so  *)
(* the double is a multiple of 2^-31 day, and for a whole second T it is   *)
(* round(T * 2^24 / 675) * 2^-31.  With T = 675 K + t the mantissa is      *)
(* K * 2^24 + round(t * 2^24 / 675); julianday gives the second summand,   *)
(* the first cancels in every difference.  2^24 = 675 * 24855 + 91.        *)
(***************************************************************************)
RoundDiv(a, b) == (2 * a + b) \div (2 * b)

julianday(t) ==
    LET q == t \div 675
        r == t % 675
    IN  q * 16777216 + r * 24855 + RoundDiv(91 * r, 675)

\* CAST((julianday(CURRENT_TIMESTAMP) - julianday(?)) * 86400 AS INTEGER):
\* the difference d (units of 2^-31 day) times 86400 is d * 675 / 2^24,
\* exact in a double; CAST truncates.  Computed in 12-bit limbs to stay
\* inside 32 bits.
DurationSeconds(completed, created) ==
    LET d  == julianday(completed) - julianday(created)
        a  == d \div 16777216
        b  == d % 16777216
        b1 == b \div 4096
        b0 == b % 4096
    IN  a * 675 + (b1 * 675 + (b0 * 675) \div 4096) \div 4096

\* mutant of UpdateCompletion: the UPDATE without WHERE id = ?
UpdateCompletion_NoWhere(t, task_id, created_at, clock) ==
    [ i \in 1..Len(t) |->
        [ t[i] EXCEPT !.completed_at = clock,
                      !.duration_seconds = DurationSeconds(clock, created_at) ] ]

\* UPDATE tasks SET completed_at = CURRENT_TIMESTAMP, duration_seconds = ...
\* WHERE id = ?
UpdateCompletion(t, task_id, created_at, clock) ==
    [ i \in 1..Len(t) |->
        IF t[i].id = task_id
        THEN [ t[i] EXCEPT !.completed_at = clock,
                           !.duration_seconds = DurationSeconds(clock, created_at) ]
        ELSE t[i] ]

\* mutant of LatestOpen: the SELECT with ORDER BY created_at ASC
LatestOpen_Oldest(t, session_id) ==
    LET open == { r \in Rows(t) : r.session_id = session_id /\ r.completed_at = NULL }
    IN  { r \in open : \A o \in open : o.created_at >= r.created_at }

\* mutant of LatestOpen: the SELECT without session_id = ?
LatestOpen_AnySession(t, session_id) ==
    LET open == { r \in Rows(t) : r.completed_at = NULL }
    IN  { r \in open : \A o \in open : o.created_at <= r.created_at }

\* mutant of LatestOpen: the SELECT without AND completed_at IS NULL
LatestOpen_IgnoreCompleted(t, session_id) ==
    LET mine == { r \in Rows(t) : r.session_id = session_id }
    IN  { r \in mine : \A o \in mine : o.created_at <= r.created_at }

\* SELECT id, created_at, seq FROM tasks WHERE session_id = ? AND
\* completed_at IS NULL ORDER BY created_at DESC LIMIT 1: the candidates for
\* the first row.  SQL leaves the order of rows with equal created_at open.
LatestOpen(t, session_id) ==
    LET open == { r \in Rows(t) : r.session_id = session_id /\ r.completed_at = NULL }
    IN  { r \in open : \A o \in open : o.created_at <= r.created_at }

NoRow == [ id |-> NULL, created_at |-> NULL, seq |-> NULL ]

\* SELECT duration_seconds FROM tasks WHERE id = ?
SelectDuration(t, task_id) ==
    (CHOOSE r \in Rows(t) : r.id = task_id).duration_seconds

----------------------------------------------------------------------------
(***************************************************************************)
(* Utilities.                                                              *)
(***************************************************************************)
\* mutant of get_project_name: without the or "Claude Code" after basename
get_project_name_NoFallback(cwd) ==
    IF ~Truthy(cwd) THEN "Claude Code" ELSE basename(cwd)

get_project_name(cwd) ==
    IF ~Truthy(cwd) THEN "Claude Code"
    ELSE IF basename(cwd) # "" THEN basename(cwd) ELSE "Claude Code"

\* mutant of format_duration: the first comparison as seconds <= 60
format_duration_Through60(seconds) ==
    IF seconds <= 60
    THEN ToString(seconds) \o "s"
    ELSE IF seconds < 3600
    THEN LET minutes == seconds \div 60
             secs == seconds % 60
         IN  IF secs > 0
             THEN ToString(minutes) \o "m " \o ToString(secs) \o "s"
             ELSE ToString(minutes) \o "m"
    ELSE LET hours == seconds \div 3600
             minutes == (seconds % 3600) \div 60
         IN  IF minutes > 0
             THEN ToString(hours) \o "h " \o ToString(minutes) \o "m"
             ELSE ToString(hours) \o "h"

format_duration(seconds) ==
    IF seconds < 60
    THEN ToString(seconds) \o "s"
    ELSE IF seconds < 3600
    THEN LET minutes == seconds \div 60
             secs == seconds % 60
         IN  IF secs > 0
             THEN ToString(minutes) \o "m " \o ToString(secs) \o "s"
             ELSE ToString(minutes) \o "m"
    ELSE LET hours == seconds \div 3600
             minutes == (seconds % 3600) \div 60
         IN  IF minutes > 0
             THEN ToString(hours) \o "h " \o ToString(minutes) \o "m"
             ELSE ToString(hours) \o "h"

get_editor_command(cwd) ==
    IF ~Truthy(cwd) \/ EDITOR_COMMAND = "" THEN None
    ELSE IF EDITOR_COMMAND = "code"
    THEN "/usr/local/bin/code \"" \o cwd \o "\""
    ELSE EDITOR_COMMAND \o " \"" \o cwd \o "\""

----------------------------------------------------------------------------
(***************************************************************************)
(* send_notification: the request handed to the transports and what the    *)
(* gateway did with it.  primary and fallback are the outcomes of running  *)
(* terminal-notifier and osascript.                                        *)
(***************************************************************************)
PrimaryOutcomes == {"ok", "nonzero", "not_installed", "timeout", "error"}
FallbackOutcomes == {"ok", "nonzero", "not_installed", "timeout", "error"}

\* the runs of the two transports one request can lead to: osascript is run
\* only when terminal-notifier is not installed
TransportRuns ==
    { <<primary, "not_run">> : primary \in PrimaryOutcomes \ {"not_installed"} }
    \cup { <<"not_installed", fallback>> : fallback \in FallbackOutcomes }

\* mutant of send_notification: without the FileNotFoundError clause, so that
\* a missing terminal-notifier is logged like any other exception
send_notification_NoFallback(title, subtitle, message, sound, cwd, urgency, primary, fallback) ==
    LET execute == IF Truthy(cwd) /\ EDITOR_COMMAND # ""
                   THEN get_editor_command(cwd)
                   ELSE None
        request == [ title |-> title, subtitle |-> subtitle, message |-> message,
                     sound |-> sound, cwd |-> cwd, urgency |-> urgency,
                     execute |-> execute ]
    IN  IF primary \in {"ok", "nonzero"}
        THEN [ request |-> request, attempts |-> <<"terminal-notifier">>,
               log |-> "Sent notification" ]
        ELSE [ request |-> request, attempts |-> <<"terminal-notifier">>,
               log |-> "Notification error" ]

\* mutant of send_notification: osascript is run after every failure of
\* terminal-notifier, not only when it is not installed
send_notification_FallbackOnFailure(title, subtitle, message, sound, cwd, urgency, primary, fallback) ==
    LET execute == IF Truthy(cwd) /\ EDITOR_COMMAND # ""
                   THEN get_editor_command(cwd)
                   ELSE None
        request == [ title |-> title, subtitle |-> subtitle, message |-> message,
                     sound |-> sound, cwd |-> cwd, urgency |-> urgency,
                     execute |-> execute ]
    IN  IF primary \in {"ok", "nonzero"}
        THEN [ request |-> request, attempts |-> <<"terminal-notifier">>,
               log |-> "Sent notification" ]
        ELSE [ request |-> request, attempts |-> <<"terminal-notifier", "osascript">>,
               log |-> IF fallback \in {"ok", "nonzero"}
                       THEN "Sent notification via osascript"
                       ELSE "Failed to send notification" ]

send_notification(title, subtitle, message, sound, cwd, urgency, primary, fallback) ==
    LET execute == IF Truthy(cwd) /\ EDITOR_COMMAND # ""
                   THEN get_editor_command(cwd)
                   ELSE None
        request == [ title |-> title, subtitle |-> subtitle, message |-> message,
                     sound |-> sound, cwd |-> cwd, urgency |-> urgency,
                     execute |-> execute ]
    IN  IF primary \in {"ok", "nonzero"}
        THEN [ request |-> request, attempts |-> <<"terminal-notifier">>,
               log |-> "Sent notification" ]
        ELSE IF primary = "not_installed"
        THEN [ request |-> request, attempts |-> <<"terminal-notifier", "osascript">>,
               log |-> IF fallback \in {"ok", "nonzero"}
                       THEN "Sent notification via osascript"
                       ELSE "Failed to send notification" ]
        ELSE [ request |-> request, attempts |-> <<"terminal-notifier">>,
               log |-> "Notification error" ]

----------------------------------------------------------------------------
(***************************************************************************)
(* The hook invocations.  pc is the statement a process executes next.     *)
(***************************************************************************)
IdleProc ==
    [ pc            |-> "idle",
      hook_event    |-> None,
      data          |-> <<>>,
      row           |-> NoRow,
      duration_secs |-> NULL,
      sent          |-> <<>>,
      raised        |-> None,
      exit          |-> NULL ]

\* the handlers dictionary of main: hook event -> first statement of its handler
Handlers ==
    [ UserPromptSubmit |-> "insert",
      Stop             |-> "select",
      SubagentStop     |-> "subagent_stop",
      Notification     |-> "notification",
      SessionStart     |-> "session_start",
      SessionEnd       |-> "session_end" ]

\* the statements that touch the store
StorePcs == {"init_database", "insert", "insert_commit", "select", "update",
             "update_commit", "readback"}

\* sys.exit(code)
Exit(p, code) == [ proc EXCEPT ![p].pc = "done", ![p].exit = code ]

\* an exception reaches main's except clauses: it is logged, then sys.exit(1)
Raise(p, exception) ==
    [ proc EXCEPT ![p].pc = "done", ![p].exit = 1, ![p].raised = exception ]

\* mutant of Main: a payload whose hook_event_name differs from the argument
\* is rejected with exit code 1
Main_MismatchFatal(p, argv, stdin) ==
    /\ proc[p].pc = "idle"
    /\ \A q \in Procs : q < p => proc[q].pc # "idle"
    /\ proc' =
         IF Len(argv) < 1 THEN Exit(p, 1)
         ELSE IF stdin.kind = "empty" THEN [ Exit(p, 0) EXCEPT ![p].hook_event = argv[1] ]
         ELSE IF stdin.kind = "malformed"
         THEN [ Raise(p, "JSONDecodeError") EXCEPT ![p].hook_event = argv[1] ]
         ELSE IF Get(stdin.data, "hook_event_name", None) # argv[1]
         THEN [ Exit(p, 1) EXCEPT ![p].hook_event = argv[1], ![p].data = stdin.data ]
         ELSE [ proc EXCEPT ![p].pc = "init_database",
                            ![p].hook_event = argv[1],
                            ![p].data = stdin.data ]
    /\ UNCHANGED <<now, schema, tasks, lock, wtable, settings, cli>>

\* mutant of Main: ClaudeNotifier() constructed at the top of main, before the
\* argument and the input are looked at
Main_StoreFirst(p, argv, stdin) ==
    /\ proc[p].pc = "idle"
    /\ \A q \in Procs : q < p => proc[q].pc # "idle"
    /\ schema' = [ table |-> TRUE, trigger |-> TRUE ]
    /\ proc' =
         IF Len(argv) < 1 THEN Exit(p, 1)
         ELSE IF stdin.kind = "empty" THEN [ Exit(p, 0) EXCEPT ![p].hook_event = argv[1] ]
         ELSE IF stdin.kind = "malformed"
         THEN [ Raise(p, "JSONDecodeError") EXCEPT ![p].hook_event = argv[1] ]
         ELSE [ proc EXCEPT ![p].pc = "init_database",
                            ![p].hook_event = argv[1],
                            ![p].data = stdin.data ]
    /\ UNCHANGED <<now, tasks, lock, wtable, settings, cli>>

\* mutant of Main: the usage message without sys.exit(1)'s nonzero code
Main_UsageExitZero(p, argv, stdin) ==
    /\ proc[p].pc = "idle"
    /\ \A q \in Procs : q < p => proc[q].pc # "idle"
    /\ proc' =
         IF Len(argv) < 1 THEN Exit(p, 0)
         ELSE IF stdin.kind = "empty" THEN [ Exit(p, 0) EXCEPT ![p].hook_event = argv[1] ]
         ELSE IF stdin.kind = "malformed"
         THEN [ Raise(p, "JSONDecodeError") EXCEPT ![p].hook_event = argv[1] ]
         ELSE [ proc EXCEPT ![p].pc = "init_database",
                            ![p].hook_event = argv[1],
                            ![p].data = stdin.data ]
    /\ UNCHANGED <<now, schema, tasks, lock, wtable, settings, cli>>

\* main, up to the construction of ClaudeNotifier.  argv is sys.argv[1:],
\* stdin is [kind: "empty" | "malformed" | "json", data: the parsed object].
Main(p, argv, stdin) ==
    /\ proc[p].pc = "idle"
    /\ \A q \in Procs : q < p => proc[q].pc # "idle"
    /\ proc' =
         IF Len(argv) < 1 THEN Exit(p, 1)
         ELSE IF stdin.kind = "empty" THEN [ Exit(p, 0) EXCEPT ![p].hook_event = argv[1] ]
         ELSE IF stdin.kind = "malformed"
         THEN [ Raise(p, "JSONDecodeError") EXCEPT ![p].hook_event = argv[1] ]
         ELSE [ proc EXCEPT ![p].pc = "init_database",
                            ![p].hook_event = argv[1],
                            ![p].data = stdin.data ]
    /\ UNCHANGED <<now, schema, tasks, lock, wtable, settings, cli>>

\* mutant of init_database: the table is created without trigger auto_seq
init_database_NoTrigger(p) ==
    /\ proc[p].pc = "init_database"
    /\ schema' = [ table |-> TRUE, trigger |-> FALSE ]
    /\ tasks' = IF schema.table THEN tasks ELSE <<>>
    /\ proc' = IF proc[p].hook_event \in DOMAIN Handlers
               THEN [ proc EXCEPT ![p].pc = Handlers[proc[p].hook_event] ]
               ELSE Exit(p, 1)
    /\ UNCHANGED <<now, lock, wtable, settings, cli>>

\* mutant of init_database: the table is dropped and created again
init_database_Recreate(p) ==
    /\ proc[p].pc = "init_database"
    /\ schema' = [ table |-> TRUE, trigger |-> TRUE ]
    /\ tasks' = <<>>
    /\ proc' = IF proc[p].hook_event \in DOMAIN Handlers
               THEN [ proc EXCEPT ![p].pc = Handlers[proc[p].hook_event] ]
               ELSE Exit(p, 1)
    /\ UNCHANGED <<now, lock, wtable, settings, cli>>

\* ClaudeNotifier.__init__ -> init_database, then main's handler lookup
init_database(p) ==
    /\ proc[p].pc = "init_database"
    /\ schema' = [ table |-> TRUE, trigger |-> TRUE ]
    /\ tasks' = IF schema.table THEN tasks ELSE <<>>
    /\ proc' = IF proc[p].hook_event \in DOMAIN Handlers
               THEN [ proc EXCEPT ![p].pc = Handlers[proc[p].hook_event] ]
               ELSE Exit(p, 1)
    /\ UNCHANGED <<now, lock, wtable, settings, cli>>

\* handle_user_prompt_submit: the INSERT (with trigger auto_seq), in an
\* implicit transaction that takes the write lock
handle_user_prompt_submit(p) ==
    /\ proc[p].pc = "insert"
    /\ lock = 0
    /\ LET session_id == Get(proc[p].data, "session_id", None)
           prompt == Get(proc[p].data, "prompt", "")
           cwd == Get(proc[p].data, "cwd", "")
       IN  IF session_id = None
           THEN \* NOT NULL constraint failed: tasks.session_id
                /\ proc' = Raise(p, "IntegrityError")
                /\ UNCHANGED <<lock, wtable>>
           ELSE /\ lock' = p
                /\ wtable' = InsertTask(tasks, session_id, prompt, cwd, now, schema.trigger)
                /\ proc' = [ proc EXCEPT ![p].pc = "insert_commit" ]
    /\ UNCHANGED <<now, schema, tasks, settings, cli>>

\* mutant of insert_commit: handle_user_prompt_submit announces the task it
\* recorded
insert_commit_Notify(p) ==
    /\ proc[p].pc = "insert_commit"
    /\ lock = p
    /\ tasks' = wtable
    /\ wtable' = <<>>
    /\ lock' = 0
    /\ LET cwd == Get(proc[p].data, "cwd", "")
           n == send_notification(get_project_name(cwd), "Task started", "",
                                  NOTIFICATION_SOUND, cwd, "low", "ok", "not_run")
       IN  proc' = [ Exit(p, 0) EXCEPT ![p].sent = Append(@, n) ]
    /\ UNCHANGED <<now, schema, settings, cli>>

\* conn.commit() of handle_user_prompt_submit
insert_commit(p) ==
    /\ proc[p].pc = "insert_commit"
    /\ lock = p
    /\ tasks' = wtable
    /\ wtable' = <<>>
    /\ lock' = 0
    /\ proc' = Exit(p, 0)
    /\ UNCHANGED <<now, schema, settings, cli>>

\* handle_stop: the SELECT of the latest incomplete task (autocommit, no lock)
handle_stop_select(p) ==
    /\ proc[p].pc = "select"
    /\ LET session_id == Get(proc[p].data, "session_id", None)
           found == LatestOpen(tasks, session_id)
       IN  IF found = {}
           THEN proc' = Exit(p, 0)
           ELSE \E r \in found :
                  proc' = [ proc EXCEPT ![p].pc = "update",
                                        ![p].row = [ id |-> r.id,
                                                     created_at |-> r.created_at,
                                                     seq |-> r.seq ] ]
    /\ UNCHANGED <<now, schema, tasks, lock, wtable, settings, cli>>

\* handle_stop: the UPDATE, in an implicit transaction that takes the write lock
handle_stop_update(p) ==
    /\ proc[p].pc = "update"
    /\ lock = 0
    /\ lock' = p
    /\ wtable' = UpdateCompletion(tasks, proc[p].row.id, proc[p].row.created_at, now)
    /\ proc' = [ proc EXCEPT ![p].pc = "update_commit" ]
    /\ UNCHANGED <<now, schema, tasks, settings, cli>>

\* handle_stop: conn.commit()
handle_stop_commit(p) ==
    /\ proc[p].pc = "update_commit"
    /\ lock = p
    /\ tasks' = wtable
    /\ wtable' = <<>>
    /\ lock' = 0
    /\ proc' = [ proc EXCEPT ![p].pc = "readback" ]
    /\ UNCHANGED <<now, schema, settings, cli>>

\* handle_stop: SELECT duration_seconds FROM tasks WHERE id = ?
handle_stop_readback(p) ==
    /\ proc[p].pc = "readback"
    /\ proc' = [ proc EXCEPT ![p].pc = "notify",
                             ![p].duration_secs = SelectDuration(tasks, proc[p].row.id) ]
    /\ UNCHANGED <<now, schema, tasks, lock, wtable, settings, cli>>

\* handle_stop: format_duration and send_notification
handle_stop_notify(p, primary, fallback) ==
    /\ proc[p].pc = "notify"
    /\ LET cwd == Get(proc[p].data, "cwd", "")
           duration_str == format_duration(proc[p].duration_secs)
           n == send_notification(get_project_name(cwd),
                                  "Task #" \o ToString(proc[p].row.seq) \o " complete",
                                  "Duration: " \o duration_str,
                                  NOTIFICATION_SOUND, cwd, "normal", primary, fallback)
       IN  proc' = [ Exit(p, 0) EXCEPT ![p].sent = Append(@, n) ]
    /\ UNCHANGED <<now, schema, tasks, lock, wtable, settings, cli>>

\* mutant of notification_configs: auth_success with action "focus"
notification_configs_AuthFocus(message) ==
    [ permission_prompt |->
        [ title |-> "Permission Required", subtitle |-> "Claude needs approval",
          message |-> message, sound |-> "Basso", urgency |-> "critical",
          action |-> "focus" ],
      idle_prompt |->
        [ title |-> "Waiting for Input", subtitle |-> "Claude is idle",
          message |-> "Waiting for your input (60+ seconds)", sound |-> "Purr",
          urgency |-> "low", action |-> "focus" ],
      elicitation_dialog |->
        [ title |-> "Input Needed", subtitle |-> "MCP tool requires input",
          message |-> message, sound |-> "Ping", urgency |-> "high",
          action |-> "focus" ],
      auth_success |->
        [ title |-> "Authentication Success", subtitle |-> "Logged in successfully",
          message |-> message, sound |-> "Glass", urgency |-> "low",
          action |-> "focus" ] ]

\* handle_notification: the table of presentations by notification type
notification_configs(message) ==
    [ permission_prompt |->
        [ title |-> "Permission Required", subtitle |-> "Claude needs approval",
          message |-> message, sound |-> "Basso", urgency |-> "critical",
          action |-> "focus" ],
      idle_prompt |->
        [ title |-> "Waiting for Input", subtitle |-> "Claude is idle",
          message |-> "Waiting for your input (60+ seconds)", sound |-> "Purr",
          urgency |-> "low", action |-> "focus" ],
      elicitation_dialog |->
        [ title |-> "Input Needed", subtitle |-> "MCP tool requires input",
          message |-> message, sound |-> "Ping", urgency |-> "high",
          action |-> "focus" ],
      auth_success |->
        [ title |-> "Authentication Success", subtitle |-> "Logged in successfully",
          message |-> message, sound |-> "Glass", urgency |-> "low",
          action |-> "none" ] ]

\* mutant of default_config: the fallback presentation as a quiet one that
\* does not focus the editor
default_config_Quiet(message) ==
    [ title |-> "Claude Code", subtitle |-> "Notification", message |-> message,
      sound |-> NOTIFICATION_SOUND, urgency |-> "low", action |-> "none" ]

\* handle_notification: the fallback of notification_configs.get
default_config(message) ==
    [ title |-> "Claude Code", subtitle |-> "Notification", message |-> message,
      sound |-> NOTIFICATION_SOUND, urgency |-> "normal", action |-> "focus" ]

handle_notification(p, primary, fallback) ==
    /\ proc[p].pc = "notification"
    /\ LET notification_type == Get(proc[p].data, "notification_type", "")
           message == Get(proc[p].data, "message", "Claude Code notification")
           cwd == Get(proc[p].data, "cwd", "")
           config == Get(notification_configs(message), notification_type,
                         default_config(message))
           n == send_notification(config.title, config.subtitle, config.message,
                                  config.sound,
                                  IF config.action = "focus" THEN cwd ELSE None,
                                  config.urgency, primary, fallback)
       IN  proc' = [ Exit(p, 0) EXCEPT ![p].sent = Append(@, n) ]
    /\ UNCHANGED <<now, schema, tasks, lock, wtable, settings, cli>>

\* mutant of handle_subagent_stop: subprocess.run without timeout=5, so that
\* the invocation waits for a terminal-notifier that hangs
handle_subagent_stop_NoTimeout(p, primary, fallback) ==
    /\ proc[p].pc = "subagent_stop"
    /\ LET cwd == Get(proc[p].data, "cwd", "")
           n == send_notification(get_project_name(cwd), "Agent task complete",
                                  "Subagent finished processing",
                                  NOTIFICATION_SOUND, cwd, "low", primary, fallback)
       IN  proc' = IF primary = "timeout"
                   THEN [ proc EXCEPT ![p].pc = "waiting" ]
                   ELSE [ Exit(p, 0) EXCEPT ![p].sent = Append(@, n) ]
    /\ UNCHANGED <<now, schema, tasks, lock, wtable, settings, cli>>

\* mutant of handle_subagent_stop: send_notification without its last
\* except clause, so that a timeout of terminal-notifier reaches main
handle_subagent_stop_Propagate(p, primary, fallback) ==
    /\ proc[p].pc = "subagent_stop"
    /\ LET cwd == Get(proc[p].data, "cwd", "")
           n == send_notification(get_project_name(cwd), "Agent task complete",
                                  "Subagent finished processing",
                                  NOTIFICATION_SOUND, cwd, "low", primary, fallback)
       IN  proc' = IF primary \in {"timeout", "error"}
                   THEN [ Raise(p, "TimeoutExpired") EXCEPT ![p].sent = Append(@, n) ]
                   ELSE [ Exit(p, 0) EXCEPT ![p].sent = Append(@, n) ]
    /\ UNCHANGED <<now, schema, tasks, lock, wtable, settings, cli>>

\* handle_subagent_stop: one notification, the store is not touched
handle_subagent_stop(p, primary, fallback) ==
    /\ proc[p].pc = "subagent_stop"
    /\ LET cwd == Get(proc[p].data, "cwd", "")
           n == send_notification(get_project_name(cwd), "Agent task complete",
                                  "Subagent finished processing",
                                  NOTIFICATION_SOUND, cwd, "low", primary, fallback)
       IN  proc' = [ Exit(p, 0) EXCEPT ![p].sent = Append(@, n) ]
    /\ UNCHANGED <<now, schema, tasks, lock, wtable, settings, cli>>

\* two decimal digits, as strftime's %H and %M
TwoDigits(n) == IF n < 10 THEN "0" \o ToString(n) ELSE ToString(n)

\* datetime.now().strftime('%H:%M'); instant 0 of the clock is 00:00:00
strftime_HM(clock) ==
    TwoDigits((clock \div 3600) % 24) \o ":" \o TwoDigits((clock \div 60) % 60)

\* handle_session_start: the subtitles by source
session_start_messages ==
    [ startup |-> "Session started",
      resume  |-> "Session resumed",
      clear   |-> "Session cleared",
      compact |-> "Session compacted" ]

\* mutant of handle_session_start: urgency "normal"
handle_session_start_Normal(p, primary, fallback) ==
    /\ proc[p].pc = "session_start"
    /\ LET source == Get(proc[p].data, "source", "startup")
           cwd == Get(proc[p].data, "cwd", "")
           n == send_notification(get_project_name(cwd),
                                  Get(session_start_messages, source, "Session event"),
                                  "Ready to work \\u2022 " \o strftime_HM(now),
                                  "Glass", None, "normal", primary, fallback)
       IN  proc' = [ Exit(p, 0) EXCEPT ![p].sent = Append(@, n) ]
    /\ UNCHANGED <<now, schema, tasks, lock, wtable, settings, cli>>

\* handle_session_start: one notification with cwd=None (the bullet of the
\* message, U+2022, is written as its escape)
handle_session_start(p, primary, fallback) ==
    /\ proc[p].pc = "session_start"
    /\ LET source == Get(proc[p].data, "source", "startup")
           cwd == Get(proc[p].data, "cwd", "")
           n == send_notification(get_project_name(cwd),
                                  Get(session_start_messages, source, "Session event"),
                                  "Ready to work \\u2022 " \o strftime_HM(now),
                                  "Glass", None, "low", primary, fallback)
       IN  proc' = [ Exit(p, 0) EXCEPT ![p].sent = Append(@, n) ]
    /\ UNCHANGED <<now, schema, tasks, lock, wtable, settings, cli>>

\* mutant of handle_session_end: the event's cwd is passed to send_notification
handle_session_end_Focus(p, primary, fallback) ==
    /\ proc[p].pc = "session_end"
    /\ LET reason == Get(proc[p].data, "reason", "exit")
           cwd == Get(proc[p].data, "cwd", "")
           n == send_notification(get_project_name(cwd), "Session ended",
                                  "Reason: " \o reason,
                                  "Glass", cwd, "low", primary, fallback)
       IN  proc' = [ Exit(p, 0) EXCEPT ![p].sent = Append(@, n) ]
    /\ UNCHANGED <<now, schema, tasks, lock, wtable, settings, cli>>

\* handle_session_end: one notification with cwd=None
handle_session_end(p, primary, fallback) ==
    /\ proc[p].pc = "session_end"
    /\ LET reason == Get(proc[p].data, "reason", "exit")
           cwd == Get(proc[p].data, "cwd", "")
           n == send_notification(get_project_name(cwd), "Session ended",
                                  "Reason: " \o reason,
                                  "Glass", None, "low", primary, fallback)
       IN  proc' = [ Exit(p, 0) EXCEPT ![p].sent = Append(@, n) ]
    /\ UNCHANGED <<now, schema, tasks, lock, wtable, settings, cli>>

\* sqlite3.OperationalError in any statement that touches the store (the
\* write lock is not obtained within the busy timeout, the medium fails):
\* the connection's context manager rolls back, main logs and exits 1
StorageError(p) ==
    /\ proc[p].pc \in StorePcs
    /\ lock' = IF lock = p THEN 0 ELSE lock
    /\ wtable' = IF lock = p THEN <<>> ELSE wtable
    /\ proc' = Raise(p, "OperationalError")
    /\ UNCHANGED <<now, schema, tasks, settings, cli>>

\* the wall clock advances.  Only the INSERT and the UPDATE read it
\* (CURRENT_TIMESTAMP), so it is advanced when one of them is about to run.
Tick ==
    /\ \E p \in Procs : proc[p].pc \in {"insert", "update"}
    /\ \E t \in Instants : t > now /\ now' = t
    /\ UNCHANGED <<schema, tasks, lock, wtable, proc, settings, cli>>

----------------------------------------------------------------------------
(***************************************************************************)
(* tools/notifications.py: the commands that install the notifier's hooks  *)
(* in ~/.claude/settings.json and remove them.  A command line of a hook   *)
(* is drawn as a sequence of words so that Python's substring test         *)
(* ("claude-notifier.py" in command) can be computed.                      *)
(***************************************************************************)
REPO_DIR == "/repo"

\* BACKENDS: the script and the template of each backend
BACKENDS ==
    ("terminal-notifier" :> [ script |-> <<"terminal", "-notifier", ".sh">>,
                              template |-> "hooks-terminal-notifier.json.tmpl" ])
    @@ ("claude-notifier" :> [ script |-> <<"claude", "-notifier", ".py">>,
                               template |-> "hooks-claude-notifier.json.tmpl" ])
    @@ ("cc-notifier" :> [ script |-> <<"cc", "-notifier", "-installer", ".sh">>,
                           template |-> "hooks-cc-notifier.json.tmpl" ])

\* pattern in text (both sequences of words)
Contains(text, pattern) ==
    \E i \in 0..(Len(text) - Len(pattern)) :
        SubSeq(text, i + 1, i + Len(pattern)) = pattern

\* load_settings: {} when the file does not exist
NoSettingsFile == [ exists |-> FALSE, json |-> <<>> ]

load_settings == IF settings.exists THEN settings.json ELSE <<>>

\* save_settings: json.dump to the file
save_settings(json) == [ exists |-> TRUE, json |-> json ]

IdleCli == [ cmd |-> None, backend |-> None, installed |-> <<>>, exit |-> NULL ]

\* the five template_str.replace calls of enable_hooks, on one word
SubstituteWord(w, notification_config) ==
    IF w = "${REPO_DIR}" THEN REPO_DIR
    ELSE IF w = "${NOTIFICATION_SOUND}" THEN Get(notification_config, "sound", "Glass")
    ELSE IF w = "${NOTIFICATION_EDITOR}" THEN Get(notification_config, "editor", "zed")
    ELSE IF w = "${PUSHOVER_API_TOKEN}" THEN Get(notification_config, "pushover_api_token", "")
    ELSE IF w = "${PUSHOVER_USER_KEY}" THEN Get(notification_config, "pushover_user_key", "")
    ELSE w

\* the substitution on a command line: a variable replaced by "" leaves no word
SubstituteCommand(cmd, notification_config) ==
    SelectSeq([ i \in 1..Len(cmd) |-> SubstituteWord(cmd[i], notification_config) ],
              LAMBDA w : w # "")

SubstituteHook(h, notification_config) ==
    IF "command" \in DOMAIN h
    THEN [ h EXCEPT !.command = SubstituteCommand(@, notification_config) ]
    ELSE h

SubstituteGroup(g, notification_config) ==
    IF "hooks" \in DOMAIN g
    THEN [ g EXCEPT !.hooks = [ i \in 1..Len(@) |-> SubstituteHook(@[i], notification_config) ] ]
    ELSE g

\* json.loads(substituted json.dumps(template))
Substitute(template, notification_config) ==
    [ k \in DOMAIN template |->
        IF k = "hooks"
        THEN [ t \in DOMAIN template.hooks |->
                 [ i \in 1..Len(template.hooks[t]) |->
                     SubstituteGroup(template.hooks[t][i], notification_config) ] ]
        ELSE [ v \in DOMAIN template[k] |->
                 SubstituteWord(template[k][v], notification_config) ] ]

\* enable_hooks: settings["hooks"][hook_type].extend(hooks) for every hook
\* type of the template
MergeHooks(old, new) ==
    [ t \in DOMAIN old \cup DOMAIN new |->
        IF t \in DOMAIN new
        THEN Get(old, t, <<>>) \o new[t]
        ELSE old[t] ]

\* enable_hooks: settings["env"].update(template["env"])
MergeEnv(old, new) ==
    [ k \in DOMAIN old \cup DOMAIN new |-> IF k \in DOMAIN new THEN new[k] ELSE old[k] ]

\* enable_hooks(backend), reading the backend's template file and the
\* current mode's configuration
enable_hooks(backend, template, config) ==
    /\ IF backend \notin DOMAIN BACKENDS
       THEN \* Unknown backend: sys.exit(1)
            /\ settings' = settings
            /\ cli' = [ IdleCli EXCEPT !.cmd = "enable", !.backend = backend, !.exit = 1 ]
       ELSE IF ~template.exists
       THEN \* Template not found: sys.exit(1)
            /\ settings' = settings
            /\ cli' = [ IdleCli EXCEPT !.cmd = "enable", !.backend = backend, !.exit = 1 ]
       ELSE IF ~config.ok
       THEN \* load_current_config raises: the process ends before save_settings
            /\ settings' = settings
            /\ cli' = [ IdleCli EXCEPT !.cmd = "enable", !.backend = backend, !.exit = 1 ]
       ELSE LET notification_config == Get(config.config, "notifications", <<>>)
                tpl == Substitute(template.json, notification_config)
                old == load_settings
                hooks == MergeHooks(Get(old, "hooks", <<>>), tpl.hooks)
                withHooks == [ k \in DOMAIN old \cup {"hooks"} |->
                                 IF k = "hooks" THEN hooks ELSE old[k] ]
                merged == IF "env" \in DOMAIN tpl
                          THEN [ k \in DOMAIN withHooks \cup {"env"} |->
                                   IF k = "env"
                                   THEN MergeEnv(Get(old, "env", <<>>), tpl.env)
                                   ELSE withHooks[k] ]
                          ELSE withHooks
            IN  /\ settings' = save_settings(merged)
                /\ cli' = [ cmd |-> "enable", backend |-> backend,
                            installed |-> tpl.hooks, exit |-> 0 ]
    /\ UNCHANGED <<now, schema, tasks, lock, wtable, proc>>

\* disable_hooks: the hook types it filters
notification_hooks ==
    {"Stop", "SubagentStop", "Notification", "SessionStart", "SessionEnd",
     "PermissionRequest"}

\* the substrings that mark a command as one of the notifier scripts
NotifierScripts ==
    { <<"cc", "-notifier">>, <<"osascript", "-notifier">>,
      <<"terminal", "-notifier", ".sh">>, <<"claude", "-notifier", ".py">> }

\* any(... in str(h.get("command", "")) for h in hook.get("hooks", []))
ReferencesNotifier(group) ==
    LET hs == Get(group, "hooks", <<>>)
    IN  \E i \in 1..Len(hs) :
          \E script \in NotifierScripts : Contains(Get(hs[i], "command", <<>>), script)

\* disable_hooks: the filter of every listed hook type, and the removal of
\* the listed hook types that are left empty
FilterHooks(hooks) ==
    LET filtered == [ t \in DOMAIN hooks |->
                        IF t \in notification_hooks
                        THEN SelectSeq(hooks[t], LAMBDA g : ~ReferencesNotifier(g))
                        ELSE hooks[t] ]
        kept == { t \in DOMAIN hooks : t \notin notification_hooks \/ Len(filtered[t]) > 0 }
    IN  [ t \in kept |-> filtered[t] ]

\* disable_hooks()
disable_hooks ==
    /\ LET old == load_settings
       IN  IF "hooks" \notin DOMAIN old
           THEN \* No hooks configured: return without save_settings
                settings' = settings
           ELSE settings' = save_settings([ old EXCEPT !.hooks = FilterHooks(@) ])
    /\ cli' = [ IdleCli EXCEPT !.cmd = "disable", !.exit = 0 ]
    /\ UNCHANGED <<now, schema, tasks, lock, wtable, proc>>

----------------------------------------------------------------------------
(***************************************************************************)
(* Spec: overlapping UserPromptSubmit and Stop invocations on one store.   *)
(***************************************************************************)
Init ==
    /\ now = Min(Instants)
    /\ schema = [ table |-> FALSE, trigger |-> FALSE ]
    /\ tasks = <<>>
    /\ lock = 0
    /\ wtable = <<>>
    /\ settings = NoSettingsFile
    /\ cli = IdleCli
    /\ proc = [ p \in Procs |-> IdleProc ]

Json(data) == [ kind |-> "json", data |-> data ]

UserPromptSubmitEvents ==
    { [ hook_event_name |-> "UserPromptSubmit", session_id |-> s, prompt |-> x, cwd |-> c ] :
        s \in Sessions, x \in Prompts, c \in Cwds \ {""} }

StopEvents ==
    { [ hook_event_name |-> "Stop", session_id |-> s, cwd |-> c ] :
        s \in Sessions, c \in Cwds \ {""} }

Invoke(p) ==
    \E data \in UserPromptSubmitEvents \cup StopEvents :
        Main(p, <<data.hook_event_name>>, Json(data))

Deliver(p) ==
    \E run \in TransportRuns : handle_stop_notify(p, run[1], run[2])

Next ==
    \/ Tick
    \/ \E p \in Procs :
        \/ Invoke(p)
        \/ init_database(p)
        \/ handle_user_prompt_submit(p)
        \/ insert_commit(p)
        \/ handle_stop_select(p)
        \/ handle_stop_update(p)
        \/ handle_stop_commit(p)
        \/ handle_stop_readback(p)
        \/ Deliver(p)
        \/ StorageError(p)

Spec == Init /\ [][Next]_vars

----------------------------------------------------------------------------
(***************************************************************************)
(* SpecNotify: Notification invocations.                                   *)
(***************************************************************************)
NotifyProcs == {1, 2}
NotificationTypes == {"permission_prompt", "idle_prompt", "elicitation_dialog",
                      "auth_success", "some_other_type"}

\* per type: one event, and one variant of it in each of message, cwd and
\* session_id
NotificationEvents ==
    { [ hook_event_name |-> "Notification", notification_type |-> k,
        message |-> v[1], cwd |-> v[2], session_id |-> v[3] ] :
        k \in NotificationTypes,
        v \in { <<"m1", "/p1", "A">>, <<"m2", "/p1", "A">>,
                 <<"m1", "", "A">>, <<"m1", "/p1", "B">> } }

InvokeNotification(p) ==
    \E data \in NotificationEvents :
        Main(p, <<data.hook_event_name>>, Json(data))

DeliverNotification(p) ==
    \E run \in TransportRuns : handle_notification(p, run[1], run[2])

NextNotify ==
    \E p \in NotifyProcs :
        \/ InvokeNotification(p)
        \/ init_database(p)
        \/ DeliverNotification(p)
        \/ StorageError(p)

SpecNotify == Init /\ [][NextNotify]_vars

----------------------------------------------------------------------------
(***************************************************************************)
(* SpecFormat: format_duration on every duration up to MaxSeconds.  The    *)
(* store holds one closed task and a Stop invocation has just read its     *)
(* duration_seconds back.                                                  *)
(***************************************************************************)
MaxSeconds == 7300

InitFormat ==
    /\ now = Min(Instants)
    /\ schema = [ table |-> TRUE, trigger |-> TRUE ]
    /\ lock = 0
    /\ wtable = <<>>
    /\ settings = NoSettingsFile
    /\ cli = IdleCli
    /\ \E s \in 0..MaxSeconds :
         /\ tasks = << [ id |-> 1, session_id |-> "A", created_at |-> now,
                         prompt |-> "x", cwd |-> "/p1", seq |-> 1,
                         completed_at |-> now + s, duration_seconds |-> s ] >>
         /\ proc = [ p \in Procs |->
                       IF p = 1
                       THEN [ IdleProc EXCEPT
                                !.pc = "notify",
                                !.hook_event = "Stop",
                                !.data = [ hook_event_name |-> "Stop",
                                           session_id |-> "A", cwd |-> "/p1" ],
                                !.row = [ id |-> 1, created_at |-> now, seq |-> 1 ],
                                !.duration_secs = s ]
                       ELSE IdleProc ]

NextFormat == \E p \in Procs : Deliver(p)

SpecFormat == InitFormat /\ [][NextFormat]_vars

----------------------------------------------------------------------------
(***************************************************************************)
(* SpecHooks: invocations of every hook event, with every kind of command  *)
(* line and standard input main distinguishes.                             *)
(***************************************************************************)
HookProcs == {1, 2}

\* str.strip(): leading and trailing whitespace removed
Whitespace == {" ", "\t", "\n", "\r"}

RECURSIVE lstrip(_)
lstrip(cs) ==
    IF cs # <<>> /\ Head(cs) \in Whitespace THEN lstrip(Tail(cs)) ELSE cs

RECURSIVE rstrip(_)
rstrip(cs) ==
    IF cs # <<>> /\ cs[Len(cs)] \in Whitespace
    THEN rstrip(SubSeq(cs, 1, Len(cs) - 1))
    ELSE cs

strip(cs) == rstrip(lstrip(cs))

\* standard input as characters: nothing, whitespace only, and texts that
\* are not JSON
StdinTexts == { <<>>, <<" ", "\n">>, <<"{">>, <<" ", "x", "\n">> }

\* mutant of ReadText: sys.stdin.read() without .strip()
ReadText_NoStrip(cs) ==
    IF cs = <<>> THEN [ kind |-> "empty" ] ELSE [ kind |-> "malformed" ]

\* sys.stdin.read().strip(), then json.loads of a text that is not JSON
ReadText(cs) ==
    IF strip(cs) = <<>> THEN [ kind |-> "empty" ] ELSE [ kind |-> "malformed" ]

\* a field the payload does not carry
Absent == "<absent>"

\* a JSON object with an optional field
Field(key, v) == IF v = Absent THEN <<>> ELSE (key :> v)

HookNotificationEvents ==
    { [ hook_event_name |-> "Notification", session_id |-> "A" ]
        @@ Field("notification_type", k) @@ Field("message", m) @@ Field("cwd", c) :
        k \in {"permission_prompt", "auth_success", "some_other_type", "", Absent},
        m \in {"m1", Absent},
        c \in {"/p1", ""} }

HookSessionEvents ==
    { [ hook_event_name |-> "SessionStart", session_id |-> "A", cwd |-> "/p1" ]
        @@ Field("source", src) : src \in {"startup", "compact", "other", Absent} }
    \cup
    { [ hook_event_name |-> "SessionEnd", session_id |-> "A", cwd |-> "/p1" ]
        @@ Field("reason", r) : r \in {"logout", Absent} }

HookSubagentEvents ==
    { [ hook_event_name |-> "SubagentStop", session_id |-> "A" ] @@ Field("cwd", c) :
        c \in {"/p1", "", Absent} }

HookTaskEvents ==
    { e \in UserPromptSubmitEvents \cup StopEvents : e.session_id = "A" }

\* task events whose payload carries no session_id
HookAnonymousEvents ==
    { [ hook_event_name |-> "UserPromptSubmit", prompt |-> "x", cwd |-> "/p1" ],
      [ hook_event_name |-> "Stop", cwd |-> "/p1" ] }

HookEvents ==
    HookNotificationEvents \cup HookSessionEvents \cup HookSubagentEvents
    \cup HookTaskEvents \cup HookAnonymousEvents

\* sys.argv[1:]: no argument, the payload's own event kind, a kind main has
\* no handler for
UnknownHook == "PreToolUse"

Argvs(stdin) ==
    { <<>>, <<UnknownHook>> }
    \cup (IF stdin.kind = "json" THEN { <<stdin.data.hook_event_name>> }
          ELSE { <<"Stop">>, <<"Notification">> })

InvokeHook(p) ==
    \E stdin \in { ReadText(cs) : cs \in StdinTexts } \cup { Json(e) : e \in HookEvents } :
        \E argv \in Argvs(stdin) : Main(p, argv, stdin)

DeliverHook(p) ==
    \E run \in TransportRuns :
        \/ handle_stop_notify(p, run[1], run[2])
        \/ handle_subagent_stop(p, run[1], run[2])
        \/ handle_notification(p, run[1], run[2])
        \/ handle_session_start(p, run[1], run[2])
        \/ handle_session_end(p, run[1], run[2])

NextHooks ==
    \/ Tick
    \/ \E p \in HookProcs :
        \/ InvokeHook(p)
        \/ init_database(p)
        \/ handle_user_prompt_submit(p)
        \/ insert_commit(p)
        \/ handle_stop_select(p)
        \/ handle_stop_update(p)
        \/ handle_stop_commit(p)
        \/ handle_stop_readback(p)
        \/ DeliverHook(p)
        \/ StorageError(p)

SpecHooks == Init /\ [][NextHooks]_vars

----------------------------------------------------------------------------
(***************************************************************************)
(* SpecLive: SpecHooks with the operating system scheduling every          *)
(* invocation that has a step to take.  A wait for the write lock ends in  *)
(* StorageError after the busy timeout, a transport that hangs ends in the *)
(* outcome "timeout", so every statement of an invocation is a step that   *)
(* is enabled or replaced by its failure.                                  *)
(***************************************************************************)
Step(p) ==
    \/ init_database(p)
    \/ handle_user_prompt_submit(p)
    \/ insert_commit(p)
    \/ handle_stop_select(p)
    \/ handle_stop_update(p)
    \/ handle_stop_commit(p)
    \/ handle_stop_readback(p)
    \/ DeliverHook(p)
    \/ StorageError(p)

SpecLive == SpecHooks /\ \A p \in HookProcs : WF_vars(Step(p))

----------------------------------------------------------------------------
(***************************************************************************)
(* SpecMismatch: every event-kind argument with payloads whose             *)
(* hook_event_name is the argument, another kind, or absent.               *)
(***************************************************************************)
MismatchProcs == {1, 2}

\* one payload per event kind
MismatchBase ==
    { [ hook_event_name |-> "UserPromptSubmit", session_id |-> "A", prompt |-> "x",
        cwd |-> "/p1" ],
      [ hook_event_name |-> "Stop", session_id |-> "A", cwd |-> "/p1" ],
      [ hook_event_name |-> "SubagentStop", session_id |-> "A", cwd |-> "/p1" ],
      [ hook_event_name |-> "Notification", session_id |-> "A",
        notification_type |-> "permission_prompt", message |-> "m1", cwd |-> "/p1" ],
      [ hook_event_name |-> "SessionStart", session_id |-> "A", source |-> "resume",
        cwd |-> "/p1" ],
      [ hook_event_name |-> "SessionEnd", session_id |-> "A", reason |-> "logout",
        cwd |-> "/p1" ] }

\* payload e with hook_event_name n (without it when n is Absent)
WithName(e, n) ==
    [ k \in DOMAIN e \ {"hook_event_name"} |-> e[k] ] @@ Field("hook_event_name", n)

MismatchEvents ==
    UNION { { WithName(e, n) : n \in {e.hook_event_name, "Stop", "Notification", Absent} } :
            e \in MismatchBase }

InvokeMismatch(p) ==
    \E e \in MismatchEvents : \E kind \in DOMAIN Handlers : Main(p, <<kind>>, Json(e))

NextMismatch ==
    \/ Tick
    \/ \E p \in MismatchProcs :
        \/ InvokeMismatch(p)
        \/ Step(p)

SpecMismatch == Init /\ [][NextMismatch]_vars

----------------------------------------------------------------------------
(***************************************************************************)
(* SpecDrain: a store in which session A has open tasks created at         *)
(* distinct instants (and session B one open task), and Stop invocations   *)
(* for session A that run one after another.                               *)
(***************************************************************************)
\* the elements of a set of instants in increasing order
RECURSIVE Ascending(_)
Ascending(S) == IF S = {} THEN <<>> ELSE <<Min(S)>> \o Ascending(S \ {Min(S)})

\* the table after UserPromptSubmit events for session A at the instants
\* of S and one for session B at the last of them
OpenTasks(S) ==
    LET at == Ascending(S)
    IN  [ i \in 1..Len(at) |->
            [ id |-> i, session_id |-> "A", created_at |-> at[i], prompt |-> "x",
              cwd |-> "/p1", seq |-> i, completed_at |-> NULL,
              duration_seconds |-> NULL ] ]
        \o << [ id |-> Len(at) + 1, session_id |-> "B", created_at |-> Max(S),
                prompt |-> "x", cwd |-> "/p1", seq |-> 1, completed_at |-> NULL,
                duration_seconds |-> NULL ] >>

InitDrain ==
    /\ now = Max(Instants)
    /\ schema = [ table |-> TRUE, trigger |-> TRUE ]
    /\ \E S \in SUBSET Instants \ {{}} : tasks = OpenTasks(S)
    /\ lock = 0
    /\ wtable = <<>>
    /\ settings = NoSettingsFile
    /\ cli = IdleCli
    /\ proc = [ p \in Procs |-> IdleProc ]

\* a Stop invocation for session A that starts when no other one is running
InvokeDrain(p) ==
    /\ \A q \in Procs : proc[q].pc \in {"idle", "done"}
    /\ Main(p, <<"Stop">>, Json([ hook_event_name |-> "Stop", session_id |-> "A",
                                  cwd |-> "/p1" ]))

NextDrain ==
    \E p \in Procs :
        \/ InvokeDrain(p)
        \/ init_database(p)
        \/ handle_stop_select(p)
        \/ handle_stop_update(p)
        \/ handle_stop_commit(p)
        \/ handle_stop_readback(p)
        \/ Deliver(p)
        \/ StorageError(p)

SpecDrain == InitDrain /\ [][NextDrain]_vars

----------------------------------------------------------------------------
(***************************************************************************)
(* SpecTitle: events of the five notifying kinds with a cwd that is a      *)
(* plain path, a path ending in "/", the root, empty, or absent, on a      *)
(* store in which session A has an open task.                              *)
(***************************************************************************)
TitleProcs == {1, 2}

TitleCwds == { Join(cs) : cs \in PathInputs } \cup {"", Absent}

TitleEvents ==
    { [ hook_event_name |-> k, session_id |-> "A",
        notification_type |-> "permission_prompt", message |-> "m1" ]
        @@ Field("cwd", c) : k \in {"Notification"}, c \in TitleCwds }
    \cup
    { [ hook_event_name |-> k, session_id |-> "A" ] @@ Field("cwd", c) :
        k \in {"Stop", "SubagentStop", "SessionStart", "SessionEnd"}, c \in TitleCwds }

InitTitle ==
    /\ now = Max(Instants)
    /\ schema = [ table |-> TRUE, trigger |-> TRUE ]
    /\ tasks = OpenTasks({Min(Instants)})
    /\ lock = 0
    /\ wtable = <<>>
    /\ settings = NoSettingsFile
    /\ cli = IdleCli
    /\ proc = [ p \in Procs |-> IdleProc ]

InvokeTitle(p) ==
    \E e \in TitleEvents : Main(p, <<e.hook_event_name>>, Json(e))

NextTitle ==
    \E p \in TitleProcs :
        \/ InvokeTitle(p)
        \/ init_database(p)
        \/ handle_stop_select(p)
        \/ handle_stop_update(p)
        \/ handle_stop_commit(p)
        \/ handle_stop_readback(p)
        \/ DeliverHook(p)
        \/ StorageError(p)

SpecTitle == InitTitle /\ [][NextTitle]_vars

----------------------------------------------------------------------------
(***************************************************************************)
(* The claims.                                                             *)
(***************************************************************************)
SessionRows(s) == { r \in Rows(tasks) : r.session_id = s }

SessionOf(p) == Get(proc[p].data, "session_id", None)

\* C1: in every committed state of the store, the seq values of each
\* session's tasks are exactly 1..N, N the number of tasks of the session,
\* pairwise distinct and increasing in creation (id) order, whatever the
\* interleaving of overlapping UserPromptSubmit invocations.
C1_SeqContiguous ==
    \A s \in Sessions :
        /\ { r.seq : r \in SessionRows(s) } = 1..Cardinality(SessionRows(s))
        /\ \A r1, r2 \in SessionRows(s) : r1.id < r2.id => r1.seq < r2.seq

\* two opens for one session overlap (one holds the write lock and has been
\* given seq 2, the other is at its INSERT) while the session has a task
C1_Witness ==
    \E p, q \in Procs, s \in Sessions :
        /\ p # q
        /\ proc[p].pc = "insert_commit" /\ SessionOf(p) = s
        /\ proc[q].pc = "insert" /\ SessionOf(q) = s
        /\ SessionRows(s) # {}
        /\ Len(wtable) = 2
        /\ wtable[2].seq = 2

\* C2: completed_at and duration_seconds are write-once: no step changes them
\* on a task that is already closed, also when two Stop invocations for the
\* same session overlap.
C2_WriteOnce ==
    [][\A i \in 1..Len(tasks) :
          tasks[i].completed_at # NULL =>
              /\ i <= Len(tasks')
              /\ tasks'[i].completed_at = tasks[i].completed_at
              /\ tasks'[i].duration_seconds = tasks[i].duration_seconds]_vars

\* the open task of session s that is the latest by created_at, ties by id
LatestById(s) ==
    LET open == { r \in SessionRows(s) : r.completed_at = NULL }
    IN  CHOOSE r \in open :
            \A o \in open :
                \/ o.created_at < r.created_at
                \/ (o.created_at = r.created_at /\ o.id <= r.id)

\* C3: the task a Stop event selects for closing is the open task of its
\* session with the greatest created_at and, among equal created_at, the
\* greatest id.
C3_ClosesLatest ==
    [][\A p \in Procs :
          (proc[p].pc = "select" /\ proc'[p].pc = "update") =>
              proc'[p].row.id = LatestById(SessionOf(p)).id]_vars

NoOpenTask(s) == ~\E r \in SessionRows(s) : r.completed_at = NULL

TaskById(id) == CHOOSE r \in Rows(tasks) : r.id = id

C5_CompletionNotification ==
    [][\A p \in Procs :
          (proc[p].pc = "notify" /\ proc'[p].pc = "done") =>
              LET r == TaskById(proc[p].row.id)
                  d == r.completed_at - r.created_at
                  c == proc[p].data.cwd
              IN  /\ Len(proc'[p].sent) = 1
                  /\ proc'[p].sent[1].request.subtitle
                        = "Task #" \o ToString(r.seq) \o " complete"
                  /\ proc'[p].sent[1].request.message
                        = "Duration: " \o format_duration(d)
                  /\ (d = 65 => proc'[p].sent[1].request.message = "Duration: 1m 5s")
                  /\ proc'[p].sent[1].request.urgency = "normal"
                  /\ proc'[p].sent[1].request.cwd = c
                  /\ proc'[p].sent[1].request.execute = get_editor_command(c)]_vars

\* C6: duration_seconds is set together with completed_at and equals
\* completed_at minus created_at in whole seconds.
C6_DurationExact ==
    \A r \in Rows(tasks) :
        /\ (r.completed_at = NULL) <=> (r.duration_seconds = NULL)
        /\ r.completed_at # NULL =>
              r.duration_seconds = r.completed_at - r.created_at

\* C8: a UserPromptSubmit event adds exactly one new open task, in the step
\* that commits its INSERT, and no step of it changes any field of a task
\* that existed before.
C8_OpenAddsOneTask ==
    [][\A p \in Procs :
          (proc[p].hook_event = "UserPromptSubmit" /\ proc'[p] # proc[p]) =>
              IF proc[p].pc = "insert_commit" /\ proc'[p].raised = None
              THEN /\ Len(tasks') = Len(tasks) + 1
                   /\ SubSeq(tasks', 1, Len(tasks)) = tasks
                   /\ tasks'[Len(tasks')].id \notin { r.id : r \in Rows(tasks) }
                   /\ tasks'[Len(tasks')].session_id = SessionOf(p)
                   /\ tasks'[Len(tasks')].completed_at = NULL
                   /\ tasks'[Len(tasks')].duration_seconds = NULL
                   /\ proc'[p].exit = 0
              ELSE tasks' = tasks]_vars

\* a session holds two open tasks at once
C8_Witness ==
    \E s \in Sessions :
        \E r1, r2 \in SessionRows(s) :
            /\ r1.id < r2.id
            /\ r1.completed_at = NULL
            /\ r2.completed_at = NULL

\* C9: init_database against a store that already exists leaves the schema
\* and every task row unchanged, and a UserPromptSubmit for a session that
\* holds N tasks receives seq = N + 1.
C9_InitIdempotent ==
    [][\A p \in Procs :
          /\ ( /\ proc[p].pc = "init_database"
               /\ proc'[p] # proc[p]
               /\ schema.table ) =>
                 (tasks' = tasks /\ schema' = schema)
          /\ ( /\ proc[p].pc = "insert_commit"
               /\ proc'[p].pc = "done"
               /\ proc'[p].raised = None ) =>
                 tasks'[Len(tasks')].seq
                    = Cardinality(SessionRows(SessionOf(p))) + 1]_vars

\* three invocations have initialized the store and a session holds three
\* tasks, the last one with seq 3
C9_Witness ==
    \E s \in Sessions :
        /\ Cardinality(SessionRows(s)) = 3
        /\ tasks[3].seq = 3
        /\ \A p \in Procs : proc[p].pc = "done" /\ proc[p].exit = 0

\* the text the claim gives for s seconds
C7_Text(s) ==
    IF s < 60 THEN ToString(s) \o "s"
    ELSE IF s < 3600
    THEN IF s % 60 # 0
         THEN ToString(s \div 60) \o "m " \o ToString(s % 60) \o "s"
         ELSE ToString(s \div 60) \o "m"
    ELSE IF (s % 3600) \div 60 # 0
         THEN ToString(s \div 3600) \o "h " \o ToString((s % 3600) \div 60) \o "m"
         ELSE ToString(s \div 3600) \o "h"

C7_Examples ==
    [ s \in {0, 59, 60, 125, 3600, 3665} |->
        CASE s = 0    -> "0s"
          [] s = 59   -> "59s"
          [] s = 60   -> "1m"
          [] s = 125  -> "2m 5s"
          [] s = 3600 -> "1h"
          [] s = 3665 -> "1h 1m" ]

\* C7: format_duration(s) is "{s}s" below 60, "{s//60}m {s%60}s" (or
\* "{s//60}m" when s%60 = 0) below 3600, and "{s//3600}h {(s%3600)//60}m" (or
\* "{s//3600}h" when that minute remainder is 0) from 3600 on; 0 -> "0s",
\* 59 -> "59s", 60 -> "1m", 125 -> "2m 5s", 3600 -> "1h", 3665 -> "1h 1m".
C7_FormatDuration ==
    \A p \in Procs :
        (proc[p].hook_event = "Stop" /\ proc[p].pc = "done" /\ proc[p].sent # <<>>) =>
            LET s == proc[p].duration_secs
                text == proc[p].sent[1].request.message
            IN  /\ text = "Duration: " \o C7_Text(s)
                /\ s \in DOMAIN C7_Examples => text = "Duration: " \o C7_Examples[s]

\* the notification for a task of 3665 seconds has been requested
C7_Witness ==
    \E p \in Procs :
        /\ proc[p].pc = "done"
        /\ proc[p].duration_secs = 3665
        /\ proc[p].sent # <<>>
        /\ proc[p].sent[1].request.message = "Duration: 1h 1m"

\* the presentation the claim gives for the four notification types
C10_Table ==
    [ permission_prompt  |-> [ title |-> "Permission Required", urgency |-> "critical",
                               focus |-> TRUE ],
      idle_prompt        |-> [ title |-> "Waiting for Input", urgency |-> "low",
                               focus |-> TRUE ],
      elicitation_dialog |-> [ title |-> "Input Needed", urgency |-> "high",
                               focus |-> TRUE ],
      auth_success       |-> [ title |-> "Authentication Success", urgency |-> "low",
                               focus |-> FALSE ] ]

C10_Handled(p) ==
    /\ proc[p].hook_event = "Notification"
    /\ proc[p].pc = "done"
    /\ proc[p].raised = None
    /\ proc[p].data.notification_type \in DOMAIN C10_Table

\* C10: for a Notification event of one of the four types the title, the
\* urgency and the focus are those of the table; title, subtitle, sound,
\* urgency and focus are the same for two events of the same type whatever
\* their message, cwd and session_id; the message is the event's message,
\* except for idle_prompt, whose message is the same text for every event.
C10_NotificationTemplates ==
    /\ \A p \in Procs :
          C10_Handled(p) =>
              LET data == proc[p].data
                  want == C10_Table[data.notification_type]
                  req == proc[p].sent[1].request
              IN  /\ Len(proc[p].sent) = 1
                  /\ req.title = want.title
                  /\ req.urgency = want.urgency
                  /\ req.cwd = IF want.focus THEN data.cwd ELSE None
                  /\ ~want.focus => req.execute = None
                  /\ data.notification_type # "idle_prompt" => req.message = data.message
                  /\ data.notification_type = "idle_prompt" =>
                        req.message \notin { e.message : e \in NotificationEvents }
    /\ \A p, q \in Procs :
          ( /\ C10_Handled(p)
            /\ C10_Handled(q)
            /\ proc[p].data.notification_type = proc[q].data.notification_type ) =>
              LET a == proc[p].sent[1].request
                  b == proc[q].sent[1].request
              IN  /\ a.title = b.title
                  /\ a.subtitle = b.subtitle
                  /\ a.sound = b.sound
                  /\ a.urgency = b.urgency
                  /\ (a.cwd = None) <=> (b.cwd = None)
                  /\ proc[p].data.notification_type = "idle_prompt" =>
                        a.message = b.message

\* two auth_success events with different messages have been handled, and
\* one of them carried a cwd that was withheld from the request
C10_Witness ==
    \E p, q \in Procs :
        /\ C10_Handled(p)
        /\ C10_Handled(q)
        /\ proc[p].data.notification_type = "auth_success"
        /\ proc[q].data.notification_type = "auth_success"
        /\ proc[p].data.message # proc[q].data.message
        /\ proc[p].data.cwd = "/p1"
        /\ proc[p].sent[1].request.cwd = None

\* invocation p of hook event kind ran its handler to the end
Handled(p, kind) ==
    /\ proc[p].hook_event = kind
    /\ proc[p].pc = "done"
    /\ proc[p].exit = 0
    /\ proc[p].data # <<>>

KnownNotificationTypes ==
    {"permission_prompt", "idle_prompt", "elicitation_dialog", "auth_success"}

C11_DefaultCase(p) ==
    /\ Handled(p, "Notification")
    /\ Get(proc[p].data, "notification_type", Absent) \notin KnownNotificationTypes

\* C11: a Notification event whose notification_type is none of the four
\* known types, or is empty or absent, requests one notification with the
\* default presentation: title "Claude Code", urgency normal, the configured
\* default sound, the event's cwd as click-target (the editor command for it
\* when the cwd is not empty), and the event's message as the message.
C11_DefaultPresentation ==
    \A p \in Procs :
        C11_DefaultCase(p) =>
            LET data == proc[p].data
                cwd == Get(data, "cwd", "")
                req == proc[p].sent[1].request
            IN  /\ Len(proc[p].sent) = 1
                /\ req.title = "Claude Code"
                /\ req.urgency = "normal"
                /\ req.sound = NOTIFICATION_SOUND
                /\ req.cwd = cwd
                /\ req.execute = (IF cwd = "" THEN None ELSE get_editor_command(cwd))
                /\ "message" \in DOMAIN data => req.message = data.message

\* an event without notification_type and one with an unknown type have
\* both been handled, the first with a cwd that became the click-target
C11_Witness ==
    \E p, q \in Procs :
        /\ C11_DefaultCase(p)
        /\ "notification_type" \notin DOMAIN proc[p].data
        /\ proc[p].sent[1].request.execute = "zed \"/p1\""
        /\ proc[p].sent[1].request.message = "m1"
        /\ C11_DefaultCase(q)
        /\ Get(proc[q].data, "notification_type", Absent) = "some_other_type"
        /\ Len(proc[q].sent) = 1

\* the requests of invocation p
Requests(p) == { proc[p].sent[i].request : i \in 1..Len(proc[p].sent) }

\* invocation p handles an event whose presentation does not focus the editor
C12_NoFocusKind(p) ==
    \/ proc[p].hook_event \in {"SessionStart", "SessionEnd"}
    \/ /\ proc[p].hook_event = "Notification"
       /\ Get(proc[p].data, "notification_type", "") = "auth_success"

\* C12: no request of an auth_success Notification, a SessionStart or a
\* SessionEnd event carries a click-target, whatever cwd the event has; a
\* request carries a click-target only if it belongs to a Stop, a
\* SubagentStop or a focus-kind Notification event with a non-empty cwd, and
\* then it is the editor command for that cwd.
C12_ClickTargetOnlyForFocus ==
    \A p \in Procs :
        \A req \in Requests(p) :
            /\ C12_NoFocusKind(p) => (req.cwd = None /\ req.execute = None)
            /\ req.execute # None =>
                  /\ proc[p].hook_event \in {"Stop", "SubagentStop", "Notification"}
                  /\ ~C12_NoFocusKind(p)
                  /\ Get(proc[p].data, "cwd", "") # ""
                  /\ req.execute = get_editor_command(proc[p].data.cwd)

\* a SessionEnd event with a cwd has been handled without a click-target,
\* and a SubagentStop event with the same cwd with one
C12_Witness ==
    \E p, q \in Procs :
        /\ Handled(p, "SessionEnd")
        /\ proc[p].data.cwd = "/p1"
        /\ Len(proc[p].sent) = 1
        /\ proc[p].sent[1].request.execute = None
        /\ Handled(q, "SubagentStop")
        /\ Get(proc[q].data, "cwd", "") = "/p1"
        /\ proc[q].sent[1].request.execute = "zed \"/p1\""

\* the statements that call send_notification
DeliveryPcs == {"notify", "subagent_stop", "notification", "session_start",
                "session_end"}

\* what the gateway logs when no transport took the request
DeliveryFailures == {"Failed to send notification", "Notification error"}

\* C13: the step that hands a request to the transports ends the invocation
\* with exit code 0 and without an exception, and leaves the store as it
\* is, for every outcome of terminal-notifier and osascript (run, nonzero
\* exit, not installed, timeout, other exception): the store is the same
\* after a failed delivery as after a successful one.
C13_DeliveryNeverFatal ==
    [][\A p \in Procs :
          (proc[p].pc \in DeliveryPcs /\ proc'[p] # proc[p]) =>
              /\ Len(proc'[p].sent) = Len(proc[p].sent) + 1
              /\ proc'[p].pc = "done"
              /\ proc'[p].exit = 0
              /\ proc'[p].raised = None
              /\ <<tasks', schema', lock', wtable'>> = <<tasks, schema, lock, wtable>>]_vars

\* a Stop invocation has closed its task and ended with exit code 0 although
\* neither transport was installed
C13_Witness ==
    \E p \in Procs :
        /\ Handled(p, "Stop")
        /\ Len(proc[p].sent) = 1
        /\ proc[p].sent[1].attempts = <<"terminal-notifier", "osascript">>
        /\ proc[p].sent[1].log = "Failed to send notification"
        /\ TaskById(proc[p].row.id).completed_at # NULL

\* the step of invocation p that calls send_notification, with the outcomes
\* of the two transports
Delivery(p, primary, fallback) ==
    \/ handle_stop_notify(p, primary, fallback)
    \/ handle_subagent_stop(p, primary, fallback)
    \/ handle_notification(p, primary, fallback)
    \/ handle_session_start(p, primary, fallback)
    \/ handle_session_end(p, primary, fallback)

\* the transports run for the request invocation p made last
LastAttempts(p) == proc'[p].sent[Len(proc'[p].sent)].attempts

\* C14: for one request terminal-notifier is run first and exactly once;
\* osascript is run, once and after terminal-notifier, if and only if
\* terminal-notifier is not installed; after any other outcome of
\* terminal-notifier (run, timeout, other exception) nothing else is run.
C14_PrimaryThenFallback ==
    [][\A p \in Procs : \A run \in TransportRuns :
          Delivery(p, run[1], run[2]) =>
              /\ LastAttempts(p)[1] = "terminal-notifier"
              /\ Len(LastAttempts(p)) <= 2
              /\ \A i \in 2..Len(LastAttempts(p)) : LastAttempts(p)[i] = "osascript"
              /\ (Len(LastAttempts(p)) = 2) <=> (run[1] = "not_installed")]_vars

\* one request went to terminal-notifier and then to osascript, another one
\* ended in terminal-notifier's failure
C14_Witness ==
    \E p, q \in Procs :
        /\ Len(proc[p].sent) = 1
        /\ proc[p].sent[1].attempts = <<"terminal-notifier", "osascript">>
        /\ proc[p].sent[1].log = "Sent notification via osascript"
        /\ Len(proc[q].sent) = 1
        /\ proc[q].sent[1].attempts = <<"terminal-notifier">>
        /\ proc[q].sent[1].log = "Notification error"

\* how many times transport t was run for the request invocation p made last
Runs(p, t) == Cardinality({ i \in 1..Len(LastAttempts(p)) : LastAttempts(p)[i] = t })

\* C15 as stated: whenever terminal-notifier is not installed, or its
\* invocation fails or times out, osascript is run exactly once for the
\* request.
C15_FallbackOnAnyFailure ==
    [][\A p \in Procs : \A run \in TransportRuns :
          (Delivery(p, run[1], run[2]) /\ run[1] \in {"not_installed", "timeout", "error"}) =>
              Runs(p, "osascript") = 1]_vars

\* C15, amended: whenever terminal-notifier is not installed, osascript is
\* run exactly once for the request; when the invocation of
\* terminal-notifier fails in another way or times out, osascript is not run.
C15_FallbackWhenNotInstalled ==
    [][\A p \in Procs : \A run \in TransportRuns :
          Delivery(p, run[1], run[2]) =>
              /\ run[1] = "not_installed" => Runs(p, "osascript") = 1
              /\ run[1] \in {"timeout", "error"} => Runs(p, "osascript") = 0]_vars

\* a SessionStart request went to osascript, and a SessionEnd request ended
\* with terminal-notifier's failure
C15_Witness ==
    \E p, q \in Procs :
        /\ Handled(p, "SessionStart")
        /\ proc[p].sent[1].attempts = <<"terminal-notifier", "osascript">>
        /\ Handled(q, "SessionEnd")
        /\ proc[q].sent[1].attempts = <<"terminal-notifier">>
        /\ proc[q].sent[1].log = "Notification error"

\* what main was given, read off the invocation record r
NoArgument(r) == r.pc # "idle" /\ r.hook_event = None
MalformedJson(r) == r.raised = "JSONDecodeError"
EmptyStdin(r) == r.pc = "done" /\ r.hook_event # None /\ r.data = <<>> /\ r.raised = None
UnknownKind(r) == r.hook_event # None /\ r.hook_event \notin DOMAIN Handlers

\* C16 as stated: an invocation with an unknown event kind (whatever its
\* standard input, empty included), with malformed JSON or without argument
\* changes no task row, requests no notification and exits with code 1.
C16_RejectedExitsOne ==
    [][\A p \in Procs :
          ( /\ proc'[p] # proc[p]
            /\ (UnknownKind(proc'[p]) \/ MalformedJson(proc'[p]) \/ NoArgument(proc'[p])) ) =>
              /\ tasks' = tasks
              /\ proc'[p].sent = <<>>
              /\ proc'[p].pc = "done" => proc'[p].exit = 1]_vars

\* C16, amended: such an invocation changes no task row and requests no
\* notification; it exits with code 1, except that an unknown event kind with
\* empty standard input exits with code 0.
C16_RejectedUnlessEmpty ==
    [][\A p \in Procs :
          ( /\ proc'[p] # proc[p]
            /\ (UnknownKind(proc'[p]) \/ MalformedJson(proc'[p]) \/ NoArgument(proc'[p])) ) =>
              /\ tasks' = tasks
              /\ proc'[p].sent = <<>>
              /\ proc'[p].pc = "done" =>
                    proc'[p].exit = (IF EmptyStdin(proc'[p]) THEN 0 ELSE 1)]_vars

\* an invocation with an unknown event kind and a well-formed payload has
\* exited with code 1 after initializing the store, and one with an unknown
\* event kind and empty standard input has exited with code 0
C16_Witness ==
    \E p, q \in Procs :
        /\ UnknownKind(proc[p])
        /\ proc[p].data # <<>>
        /\ proc[p].raised = None
        /\ proc[p].exit = 1
        /\ schema.table
        /\ UnknownKind(proc[q])
        /\ EmptyStdin(proc[q])
        /\ proc[q].exit = 0

\* a text of whitespace characters only (the empty text included)
WhitespaceOnly(cs) == \A i \in 1..Len(cs) : cs[i] \in Whitespace

\* C17: an invocation with an event-kind argument whose standard input is
\* empty or whitespace-only ends in its first step with exit code 0: it does
\* not reach init_database (the store is neither opened nor created),
\* changes no task row and requests no notification.
C17_EmptyInputNoOp ==
    [][\A p \in Procs : \A cs \in StdinTexts : \A argv \in Argvs(ReadText(cs)) :
          ( /\ Len(argv) >= 1
            /\ WhitespaceOnly(cs)
            /\ Main(p, argv, ReadText(cs)) ) =>
              /\ proc'[p].pc = "done"
              /\ proc'[p].exit = 0
              /\ proc'[p].raised = None
              /\ proc'[p].sent = <<>>
              /\ <<schema', tasks', lock', wtable'>> = <<schema, tasks, lock, wtable>>]_vars

\* two invocations with empty standard input, one for a known and one for an
\* unknown event kind, have ended with exit code 0 and the store has not
\* been created
C17_Witness ==
    \E p, q \in Procs :
        /\ EmptyStdin(proc[p]) /\ proc[p].hook_event = "Stop" /\ proc[p].exit = 0
        /\ EmptyStdin(proc[q]) /\ proc[q].hook_event = UnknownHook /\ proc[q].exit = 0
        /\ ~schema.table
        /\ tasks = <<>>

\* the invocation record r is that of an input error
InputError(r) == NoArgument(r) \/ EmptyStdin(r) \/ MalformedJson(r)

\* C18 as stated: a missing argument, an empty standard input and malformed
\* JSON each end the invocation in its first step with exit code 1, and
\* neither the store nor a transport is touched.
C18_InputErrorExitsOne ==
    [][\A p \in Procs :
          (proc'[p] # proc[p] /\ InputError(proc'[p])) =>
              /\ proc[p].pc = "idle"
              /\ proc'[p].pc = "done"
              /\ proc'[p].exit = 1
              /\ proc'[p].sent = <<>>
              /\ <<schema', tasks', lock', wtable'>> = <<schema, tasks, lock, wtable>>]_vars

\* C18, amended: a missing argument and malformed JSON end the invocation in
\* its first step with exit code 1, an empty standard input ends it with
\* exit code 0; in all three cases neither the store nor a transport is
\* touched.
C18_InputErrorNoSideEffect ==
    [][\A p \in Procs :
          (proc'[p] # proc[p] /\ InputError(proc'[p])) =>
              /\ proc[p].pc = "idle"
              /\ proc'[p].pc = "done"
              /\ (NoArgument(proc'[p]) \/ MalformedJson(proc'[p])) => proc'[p].exit = 1
              /\ EmptyStdin(proc'[p]) => proc'[p].exit = 0
              /\ proc'[p].sent = <<>>
              /\ <<schema', tasks', lock', wtable'>> = <<schema, tasks, lock, wtable>>]_vars

\* an invocation without argument and one with malformed JSON for a known
\* event kind have both exited with code 1, and the store has not been created
C18_Witness ==
    \E p, q \in Procs :
        /\ NoArgument(proc[p]) /\ proc[p].exit = 1
        /\ MalformedJson(proc[q]) /\ proc[q].hook_event = "Notification" /\ proc[q].exit = 1
        /\ ~schema.table

\* invocation p is the only one of its event kind so far
OnlyOfItsKind(p) ==
    \A q \in Procs \ {p} : proc[q].hook_event # proc[p].hook_event

\* C19: when a store operation of a UserPromptSubmit or Stop invocation has
\* failed, the event has left no trace: no notification was requested, no row
\* has an unassigned seq, the task a Stop selected is still open and a
\* UserPromptSubmit added no row (the last two stated for an invocation that
\* is the only one of its kind, so that no other invocation closed or added
\* the row).
C19_StoreFailureDropsEvent ==
    \A p \in Procs :
        proc[p].raised = "OperationalError" =>
            /\ proc[p].sent = <<>>
            /\ \A r \in Rows(tasks) : r.seq # NULL
            /\ ( /\ proc[p].hook_event = "Stop"
                 /\ proc[p].row # NoRow
                 /\ OnlyOfItsKind(p) ) =>
                   TaskById(proc[p].row.id).completed_at = NULL
            /\ ( /\ proc[p].hook_event = "UserPromptSubmit"
                 /\ OnlyOfItsKind(p) ) =>
                   tasks = <<>>

\* the number of rows of table t that are new or different in table u, plus
\* the number of rows of t that u no longer has
Mutations(t, u) ==
    Cardinality({ i \in 1..Len(u) : i > Len(t) \/ u[i] # t[i] })
    + (IF Len(t) > Len(u) THEN Len(t) - Len(u) ELSE 0)

\* the statements of an invocation that follow its commit, and its end
PostMutation == {"readback", "notify", "done"}

\* C20: a step of an invocation inserts or changes at most one task row; the
\* step that does takes the invocation to the statements after its commit,
\* which it never leaves and which change no row, so an invocation mutates
\* at most one row; no step but an invocation's changes the table; an
\* invocation requests at most one notification, and a UserPromptSubmit
\* invocation none.
C20_AtMostOneMutationOneRequest ==
    [][/\ \A p \in Procs :
            proc'[p] # proc[p] =>
                /\ Mutations(tasks, tasks') <= 1
                /\ Mutations(tasks, tasks') = 1 =>
                      (proc[p].pc \notin PostMutation /\ proc'[p].pc \in PostMutation)
                /\ proc[p].pc \in PostMutation => proc'[p].pc \in PostMutation
                /\ Len(proc'[p].sent) <= 1
                /\ proc'[p].hook_event = "UserPromptSubmit" => proc'[p].sent = <<>>
       /\ proc' = proc => tasks' = tasks]_vars

\* a UserPromptSubmit invocation has ended without a request, and the Stop
\* invocation that closed its task has ended with one request
C20_Witness ==
    \E p, q \in Procs :
        /\ Handled(p, "UserPromptSubmit")
        /\ proc[p].sent = <<>>
        /\ Handled(q, "Stop")
        /\ Len(proc[q].sent) = 1
        /\ Len(tasks) = 1
        /\ tasks[1].completed_at # NULL

\* C21: every invocation that has started eventually ends with exit code 0
\* or 1, given only that it keeps being scheduled: a transport that hangs is
\* abandoned at its timeout, and a wait for the store's write lock held by
\* another invocation ends with an error when it is not obtained in time.
C21_Terminates ==
    \A p \in Procs :
        (proc[p].pc # "idle") ~> (proc[p].pc = "done" /\ proc[p].exit \in {0, 1})

\* an invocation has ended with a store error while the other one holds the
\* write lock
C21_Witness ==
    \E p, q \in Procs :
        /\ p # q
        /\ lock = q
        /\ proc[p].pc = "done"
        /\ proc[p].raised = "OperationalError"
        /\ proc[p].exit = 1

\* the ids of the rows of table t
Ids(t) == { r.id : r \in Rows(t) }

\* the row of table t with the given id
RowOf(t, id) == CHOOSE r \in Rows(t) : r.id = id

\* the invocation that takes this step handles an event of the given kind
\* for session s
StepOf(kind, s) ==
    \E p \in Procs :
        /\ proc'[p] # proc[p]
        /\ proc[p].hook_event = kind
        /\ SessionOf(p) = s

\* C22: in every step no task row is deleted; a row that is new after the
\* step is an open row added by a UserPromptSubmit invocation for the row's
\* session; a row that is open before and closed after the step was closed
\* by a Stop invocation whose session_id is the row's.
C22_TaskLifecycle ==
    [][/\ Ids(tasks) \subseteq Ids(tasks')
       /\ \A id \in Ids(tasks') \ Ids(tasks) :
             /\ RowOf(tasks', id).completed_at = NULL
             /\ StepOf("UserPromptSubmit", RowOf(tasks', id).session_id)
       /\ \A id \in Ids(tasks) :
             ( /\ RowOf(tasks, id).completed_at = NULL
               /\ RowOf(tasks', id).completed_at # NULL ) =>
                 StepOf("Stop", RowOf(tasks, id).session_id)]_vars

\* session A has a closed task while session B has an open one
C22_Witness ==
    /\ \E r \in SessionRows("A") : r.completed_at # NULL
    /\ \E r \in SessionRows("B") : r.completed_at = NULL
    /\ \E p \in Procs : Handled(p, "Stop") /\ SessionOf(p) = "A"

\* C23: a UserPromptSubmit event whose payload has no session_id ends with
\* exit code 0 (unless the store itself failed) and leaves an open task of
\* session "", and a Stop event without session_id that has ended after it
\* has closed a task of session "".
C23_AbsentSessionIsEmpty ==
    \A p \in Procs :
        ( /\ proc[p].pc = "done"
          /\ proc[p].data # <<>>
          /\ "session_id" \notin DOMAIN proc[p].data
          /\ proc[p].raised # "OperationalError" ) =>
            /\ proc[p].hook_event = "UserPromptSubmit" =>
                  /\ proc[p].exit = 0
                  /\ \E r \in Rows(tasks) : r.session_id = ""
            /\ ( /\ proc[p].hook_event = "Stop"
                 /\ \E q \in Procs : /\ proc[q].hook_event = "UserPromptSubmit"
                                     /\ proc[q].pc = "done"
                                     /\ "session_id" \notin DOMAIN proc[q].data ) =>
                  \E r \in Rows(tasks) : r.session_id = "" /\ r.completed_at # NULL

\* the statements of the handler main has for each event kind
HandlerPcs ==
    [ UserPromptSubmit |-> {"insert", "insert_commit"},
      Stop             |-> {"select", "update", "update_commit", "readback", "notify"},
      SubagentStop     |-> {"subagent_stop"},
      Notification     |-> {"notification"},
      SessionStart     |-> {"session_start"},
      SessionEnd       |-> {"session_end"} ]

\* invocations p and q have the same argument and payloads that differ at
\* most in hook_event_name
SameButName(p, q) ==
    /\ proc[p].data # <<>>
    /\ proc[q].data # <<>>
    /\ proc[p].hook_event = proc[q].hook_event
    /\ WithName(proc[p].data, Absent) = WithName(proc[q].data, Absent)

\* the request r without its message
Presentation(r) == [ k \in DOMAIN r \ {"message"} |-> r[k] ]

\* C24: an invocation runs the statements of the handler of its argument,
\* whatever hook_event_name its payload has; two invocations with the same
\* argument and payloads that differ only in hook_event_name end with the
\* same exit code (store failures apart) and, for the event kinds that do
\* not use the store, with the same requests (the same presentation for
\* SessionStart, whose message is the time of day).
C24_MismatchNonFatal ==
    /\ \A p \in Procs :
          ( /\ proc[p].data # <<>>
            /\ proc[p].hook_event \in DOMAIN Handlers
            /\ proc[p].pc \notin {"init_database", "done"} ) =>
              proc[p].pc \in HandlerPcs[proc[p].hook_event]
    /\ \A p, q \in Procs :
          ( /\ SameButName(p, q)
            /\ proc[p].pc = "done" /\ proc[p].raised = None
            /\ proc[q].pc = "done" /\ proc[q].raised = None ) =>
              /\ proc[p].exit = proc[q].exit
              /\ Len(proc[p].sent) = Len(proc[q].sent)
              /\ proc[p].hook_event \in {"SubagentStop", "Notification", "SessionEnd"} =>
                    Requests(p) = Requests(q)
              /\ proc[p].hook_event = "SessionStart" =>
                    { Presentation(r) : r \in Requests(p) }
                      = { Presentation(r) : r \in Requests(q) }
              /\ (proc[p].hook_event = "UserPromptSubmit" /\ p # q) => Len(tasks) = 2

\* a Notification invocation whose payload is named Notification and one
\* whose payload is named Stop have both ended with exit code 0 and the
\* same request
C24_Witness ==
    \E p, q \in Procs :
        /\ SameButName(p, q)
        /\ proc[p].hook_event = "Notification"
        /\ Get(proc[p].data, "hook_event_name", Absent) = "Notification"
        /\ Get(proc[q].data, "hook_event_name", Absent) = "Stop"
        /\ proc[p].exit = 0
        /\ proc[q].exit = 0
        /\ Len(proc[q].sent) = 1
        /\ Requests(p) = Requests(q)

\* the Stop invocations 1..p have all ended without an exception
Drained(p) == \A q \in 1..p : proc[q].pc = "done" /\ proc[q].raised = None

\* C25: when session A has k open tasks with distinct created_at and Stop
\* events for A are handled one after another, the closed tasks of A are
\* always the last-created ones (an earlier task is open as long as a later
\* one is), the i-th Stop requests the notification of the task with the
\* i-th largest seq, after k Stops A has no open task, and a further Stop
\* requests nothing.
C25_MostRecentFirst ==
    LET k == Cardinality(SessionRows("A"))
    IN  /\ \A r1, r2 \in SessionRows("A") :
              (r1.id < r2.id /\ r1.completed_at # NULL) => r2.completed_at # NULL
        /\ \A i \in Procs :
              Drained(i) =>
                  /\ i <= k =>
                        /\ Len(proc[i].sent) = 1
                        /\ proc[i].sent[1].request.subtitle
                              = "Task #" \o ToString(k - i + 1) \o " complete"
                        /\ proc[i].row.seq = k - i + 1
                  /\ i > k => proc[i].sent = <<>>
                  /\ i >= k => NoOpenTask("A")
                  /\ (i < k /\ \A q \in Procs : q > i => proc[q].pc = "idle") =>
                        Cardinality({ r \in SessionRows("A") :
                                        r.completed_at = NULL }) = k - i

\* three open tasks have been closed by three Stop events, the last of
\* which announced task 1, and the task of session B is still open
C25_Witness ==
    /\ Cardinality(SessionRows("A")) = 3
    /\ Drained(3)
    /\ proc[3].sent[1].request.subtitle = "Task #1 complete"
    /\ proc[1].sent[1].request.subtitle = "Task #3 complete"
    /\ NoOpenTask("A")
    /\ ~NoOpenTask("B")

\* the event kinds whose handlers do not use the table
NotifyOnlyKinds == {"SubagentStop", "Notification", "SessionStart", "SessionEnd"}

\* C26: no step of a SubagentStop, Notification, SessionStart or SessionEnd
\* invocation changes the table; when such an invocation has handled its
\* event, it has requested exactly one notification, with urgency low for
\* SubagentStop, SessionStart and SessionEnd.
C26_NotifyOnlyEvents ==
    [][\A p \in Procs :
          (proc'[p] # proc[p] /\ proc'[p].hook_event \in NotifyOnlyKinds) =>
              /\ tasks' = tasks
              /\ wtable' = wtable
              /\ ( /\ proc'[p].pc = "done"
                   /\ proc'[p].exit = 0
                   /\ proc'[p].data # <<>> ) =>
                    /\ Len(proc'[p].sent) = 1
                    /\ proc'[p].hook_event # "Notification" =>
                          proc'[p].sent[1].request.urgency = "low"]_vars

\* a SessionStart event has been handled with one low-urgency request while
\* the table holds an open task
C26_Witness ==
    \E p \in Procs :
        /\ Handled(p, "SessionStart")
        /\ Len(proc[p].sent) = 1
        /\ proc[p].sent[1].request.urgency = "low"
        /\ Len(tasks) = 1
        /\ tasks[1].completed_at = NULL

\* the event kinds whose title is the project name
ProjectKinds == {"Stop", "SubagentStop", "SessionStart", "SessionEnd"}

\* the path cs without the slashes it ends in
RECURSIVE WithoutTrailingSlashes(_)
WithoutTrailingSlashes(cs) ==
    IF cs # <<>> /\ cs[Len(cs)] = "/"
    THEN WithoutTrailingSlashes(SubSeq(cs, 1, Len(cs) - 1))
    ELSE cs

\* what follows the last "/" of cs
AfterLastSlash(cs) ==
    LET k == CHOOSE i \in 0..Len(cs) :
                 /\ i = 0 \/ cs[i] = "/"
                 /\ \A j \in (i + 1)..Len(cs) : cs[j] # "/"
    IN  Join(SubSeq(cs, k + 1, Len(cs)))

\* the last path segment of the path s
LastSegment(s) == AfterLastSlash(WithoutTrailingSlashes(Chars(s)))

\* invocation p handled an event of a project-name kind and requested a
\* notification
C27_Titled(p) ==
    /\ proc[p].hook_event \in ProjectKinds
    /\ Handled(p, proc[p].hook_event)
    /\ proc[p].sent # <<>>

\* two Notification events of one type have the same title
C27_StaticTitle ==
    \A p, q \in Procs :
        ( /\ Handled(p, "Notification") /\ proc[p].sent # <<>>
          /\ Handled(q, "Notification") /\ proc[q].sent # <<>> ) =>
            /\ proc[p].sent[1].request.title = "Permission Required"
            /\ proc[q].sent[1].request.title = proc[p].sent[1].request.title

\* C27 as stated: for Stop, SubagentStop, SessionStart and SessionEnd the
\* title is the last path segment of the cwd when the cwd is not empty and
\* "Claude Code" when it is empty or absent, and is never empty; the title
\* of a Notification event is static.
C27_TitleIsLastSegment ==
    /\ \A p \in Procs :
          C27_Titled(p) =>
              LET cwd == Get(proc[p].data, "cwd", "")
                  title == proc[p].sent[1].request.title
              IN  /\ title # ""
                  /\ title = (IF cwd = "" THEN "Claude Code" ELSE LastSegment(cwd))
    /\ C27_StaticTitle

\* C27, amended: for those four kinds the title is what follows the last
\* "/" of the cwd when that is not empty, and "Claude Code" otherwise (the
\* cwd is empty, absent or ends in "/"), so it is never empty; the title of
\* a Notification event is static.
C27_TitleIsBasenameOrProduct ==
    /\ \A p \in Procs :
          C27_Titled(p) =>
              LET cwd == Get(proc[p].data, "cwd", "")
                  title == proc[p].sent[1].request.title
              IN  /\ title # ""
                  /\ title = (IF AfterLastSlash(Chars(cwd)) = ""
                              THEN "Claude Code"
                              ELSE AfterLastSlash(Chars(cwd)))
    /\ C27_StaticTitle

\* a SessionEnd event whose cwd ends in "/" got the title "Claude Code" and
\* a Stop event with cwd /p1 the title "p1"
C27_Witness ==
    \E p, q \in Procs :
        /\ C27_Titled(p)
        /\ proc[p].hook_event = "SessionEnd"
        /\ Get(proc[p].data, "cwd", "") = "/p1/"
        /\ proc[p].sent[1].request.title = "Claude Code"
        /\ C27_Titled(q)
        /\ proc[q].hook_event = "Stop"
        /\ Get(proc[q].data, "cwd", "") = "/p1"
        /\ proc[q].sent[1].request.title = "p1"

\* the largest seq among the rows of session s in table t, 0 without rows
MaxSeq(t, s) ==
    LET seqs == { r.seq : r \in { x \in Rows(t) : x.session_id = s } }
    IN  IF seqs = {} THEN 0 ELSE Max(seqs)

\* C28: a step of an invocation for session A leaves every row of another
\* session as it is, and the seq of the row a UserPromptSubmit for A adds is
\* one more than the largest seq of A's rows, whatever rows other sessions
\* have.
C28_SessionsIndependent ==
    [][\A p \in Procs :
          (proc'[p] # proc[p] /\ proc[p].pc # "idle") =>
              /\ \A i \in 1..Len(tasks) :
                    tasks[i].session_id # SessionOf(p) =>
                        (i <= Len(tasks') /\ tasks'[i] = tasks[i])
              /\ Len(tasks') > Len(tasks) =>
                    /\ tasks'[Len(tasks')].session_id = SessionOf(p)
                    /\ tasks'[Len(tasks')].seq = MaxSeq(tasks, SessionOf(p)) + 1]_vars

\* the table holds a task of A, then one of B with seq 1, then a second one
\* of A with seq 2
C28_Witness ==
    /\ Len(tasks) = 3
    /\ tasks[1].session_id = "A"
    /\ tasks[2].session_id = "B"
    /\ tasks[3].session_id = "A"
    /\ tasks[3].seq = 2
    /\ tasks[2].seq = 1

\* the Stop invocations for session s that have requested a notification
Announcers(s) ==
    { p \in Procs : /\ proc[p].hook_event = "Stop"
                    /\ SessionOf(p) = s
                    /\ proc[p].sent # <<>> }

\* C29: under every interleaving of Stop invocations no two of them request
\* the completion notification of the same task, and the completion
\* notifications requested for a session are never more than the session's
\* closed tasks.
C29_OneAnnouncementPerTask ==
    \A s \in Sessions :
        /\ \A p, q \in Announcers(s) : p # q => proc[p].row.id # proc[q].row.id
        /\ Cardinality(Announcers(s))
              <= Cardinality({ r \in SessionRows(s) : r.completed_at # NULL })

\* C30: in the step in which a Stop invocation requests "Task #n complete",
\* the committed table holds the task of its session with seq n as closed
\* (completed_at and duration_seconds set), and the message shows the
\* duration_seconds that row holds in that state.
C30_CommitPrecedesNotify ==
    [][\A p \in Procs :
          (proc[p].pc = "notify" /\ proc'[p].pc = "done") =>
              \E r \in SessionRows(SessionOf(p)) :
                  /\ r.seq = proc[p].row.seq
                  /\ proc'[p].sent[1].request.subtitle
                        = "Task #" \o ToString(r.seq) \o " complete"
                  /\ r.completed_at # NULL
                  /\ r.duration_seconds # NULL
                  /\ proc'[p].sent[1].request.message
                        = "Duration: " \o format_duration(r.duration_seconds)]_vars

----------------------------------------------------------------------------
\* C31: in every committed state of the store every task has a seq that is
\* not NULL and at least 1; completed_at is NULL exactly when
\* duration_seconds is NULL; and when they are set, completed_at is not
\* before created_at and duration_seconds is not negative (the clock of the
\* model never goes back).
C31_RowWellFormed ==
    \A r \in Rows(tasks) :
        /\ r.seq # NULL
        /\ r.seq >= 1
        /\ (r.completed_at = NULL) <=> (r.duration_seconds = NULL)
        /\ r.completed_at # NULL =>
              /\ r.completed_at >= r.created_at
              /\ r.duration_seconds >= 0

\* a committed table with a task closed after more than a minute and a task
\* still open, every invocation over
C31_Witness ==
    /\ \E r \in Rows(tasks) :
          r.completed_at > r.created_at /\ r.duration_seconds > 60
    /\ \E r \in Rows(tasks) :
          r.completed_at = NULL /\ r.duration_seconds = NULL /\ r.seq >= 1
    /\ \A q \in Procs : proc[q].pc \in {"idle", "done"}

----------------------------------------------------------------------------
(***************************************************************************)
(* SpecSettings: enable and disable commands of tools/notifications.py on  *)
(* a settings file that may hold hooks of the user's own.                  *)
(***************************************************************************)
MaxGroups == 2

\* hooks of the user's own: a command that is no notifier script, a command
\* that runs the terminal-notifier program itself, and a group without hooks
UserGroup ==
    [ matcher |-> "", hooks |-> << [ type |-> "command", command |-> <<"echo", " ", "done">> ] >> ]

DirectGroup ==
    [ matcher |-> "",
      hooks |-> << [ type |-> "command",
                     command |-> <<"terminal", "-notifier", " ", "-message", " ", "done">> ] >> ]

BareGroup == [ matcher |-> "" ]

UserSettings ==
    { NoSettingsFile,
      save_settings(<<>>),
      save_settings([ hooks |-> <<>> ]),
      save_settings([ hooks |-> [ Stop |-> << UserGroup >> ] ]),
      save_settings([ hooks |-> [ PreToolUse |-> << UserGroup >>, Stop |-> << DirectGroup >> ],
                      env |-> [ NOTIFICATION_SOUND |-> "Ping" ] ]),
      save_settings([ hooks |-> [ Notification |-> << BareGroup >>,
                                  UserPromptSubmit |-> << UserGroup >> ] ]) }

\* the hook types a backend's template hooks: among the events
\* claude-notifier.py handles
TemplateHookTypes == { {"Stop"}, {"Stop", "Notification"}, {"UserPromptSubmit", "Stop"} }

\* one hook group of a template: the backend's script, run with the event kind
TemplateGroup(backend, kind) ==
    [ matcher |-> "",
      hooks |-> << [ type |-> "command",
                     command |-> <<"${REPO_DIR}", "/shell/notifications/">>
                                 \o BACKENDS[backend].script \o <<" ", kind>> ] >> ]

NoTemplate == [ exists |-> FALSE, json |-> <<>> ]

\* the template file of a backend: absent, or hooks with or without env
Templates(backend) ==
    IF backend \notin DOMAIN BACKENDS THEN { NoTemplate }
    ELSE { NoTemplate }
         \cup { [ exists |-> TRUE,
                  json |-> [ hooks |-> [ t \in T |-> << TemplateGroup(backend, t) >> ] ] ] :
                T \in TemplateHookTypes }
         \cup { [ exists |-> TRUE,
                  json |-> [ hooks |-> [ t \in T |-> << TemplateGroup(backend, t) >> ],
                             env |-> [ NOTIFICATION_SOUND |-> "${NOTIFICATION_SOUND}" ] ] ] :
                T \in TemplateHookTypes }

\* load_current_config: no active mode ({}), a mode with a notifications
\* section, or a mode whose file cannot be read
ConfigInputs ==
    { [ ok |-> TRUE, config |-> <<>> ],
      [ ok |-> TRUE, config |-> [ notifications |-> [ sound |-> "Hero" ] ] ],
      [ ok |-> FALSE, config |-> <<>> ] }

BackendArgs == DOMAIN BACKENDS \cup {"osascript"}

InitSettings ==
    /\ now = Min(Instants)
    /\ schema = [ table |-> FALSE, trigger |-> FALSE ]
    /\ tasks = <<>>
    /\ lock = 0
    /\ wtable = <<>>
    /\ proc = [ p \in Procs |-> IdleProc ]
    /\ settings \in UserSettings
    /\ cli = IdleCli

\* notifications.py enable <backend>, while no hook type holds MaxGroups groups
InvokeEnable ==
    /\ \A t \in DOMAIN Get(load_settings, "hooks", <<>>) :
          Len(load_settings.hooks[t]) < MaxGroups
    /\ \E backend \in BackendArgs :
         \E template \in Templates(backend), config \in ConfigInputs :
            enable_hooks(backend, template, config)

\* notifications.py disable
InvokeDisable == disable_hooks

NextSettings == InvokeEnable \/ InvokeDisable

SpecSettings == InitSettings /\ [][NextSettings]_vars

\* the hook groups of a settings dictionary, per hook type
HooksOf(json) == Get(json, "hooks", <<>>)

\* no hook group under any hook type references a notifier script
C32_NoneLeft(hooks) ==
    \A t \in DOMAIN hooks :
        \A i \in 1..Len(hooks[t]) : ~ReferencesNotifier(hooks[t][i])

\* the groups that reference no notifier script are the same before and after
C32_OthersKept(before, after) ==
    \A t \in DOMAIN before :
        SelectSeq(before[t], LAMBDA g : ~ReferencesNotifier(g))
            = SelectSeq(Get(after, t, <<>>), LAMBDA g : ~ReferencesNotifier(g))

\* none of the groups the preceding enable installed is left
C32_BackendGone(installed, after) ==
    \A t \in DOMAIN installed :
        \A i \in 1..Len(installed[t]) :
            \A j \in 1..Len(Get(after, t, <<>>)) : after[t][j] # installed[t][i]

\* C32: a disable command on settings that contain hooks leaves no hook
\* group, under any hook type (UserPromptSubmit included), that references a
\* notifier script; it leaves every group that references none unchanged; and
\* when the command before it was a successful enable, none of the groups
\* that enable installed is left.
C32_DisableRemovesNotifierHooks ==
    [][(disable_hooks /\ "hooks" \in DOMAIN load_settings) =>
          /\ C32_NoneLeft(HooksOf(settings'.json))
          /\ C32_OthersKept(HooksOf(settings.json), HooksOf(settings'.json))
          /\ (cli.cmd = "enable" /\ cli.exit = 0) =>
                C32_BackendGone(cli.installed, HooksOf(settings'.json))]_vars

====
